---- MODULE Spec2Model ----
(***************************************************************************)
(* FPL-Genius-Bot: the resilient API access layer (services/fpl_api.py and *)
(* services/fpl_api_service/api.py), the session manager                   *)
(* (services/session_manager.py) and the transfer execution path.          *)
(*                                                                         *)
(* The specifications share one set of variables:                          *)
(*   Spec      one caller at a time: the request layer with its cache and  *)
(*             tenacity retry loop, and execute_transfers;                 *)
(*   SpecAuth  one caller at a time: _ensure_authenticated, _authenticate  *)
(*             and SessionManager.refresh_session on the session clock;    *)
(*   SpecConc  several coroutines inside _ensure_authenticated, one step   *)
(*             per stretch of code between two awaits;                     *)
(*   SpecSched start_scheduler, stop_scheduler and the tasks that run       *)
(*             _scheduler_loop;                                            *)
(*   SpecRace  coroutines that share one client: requests, transfer POSTs  *)
(*             and renewals interleaved at their awaits, with cancellation;*)
(*   SpecSweep one pass of _scheduler_loop over the tracked accounts;      *)
(*   SpecVal   validate_transfers on a squad and a batch;                  *)
(*   SpecCalc  identify_transfer_targets and select_lineup on their inputs.*)
(***************************************************************************)
EXTENDS Integers, Sequences, FiniteSets, TLC

VARIABLES now, client, req, exec, sm, op, tasks, conc, val, sched, race, sweep, calc

vars == <<now, client, req, exec, sm, op, tasks, conc, val, sched, race, sweep, calc>>

\* the session manager and the coroutines are not part of every specification
idleVars == <<sm, op, tasks, conc, val, sched, race, sweep, calc>>

----------------------------------------------------------------------------
(* Bounds of the model *)

\* the clock advances this many times, TickStep seconds each time
MaxTicks == 3
\* seconds between two observations of the clock
TickStep == 100
\* SpecAuth and SpecConc: the session clock stops here (seconds)
MaxAuthNow == 4000
\* SpecAuth: refresh_session is not called again once the failure counter
\* has reached this value
MaxFailureCount == 4
\* SpecConc: coroutines that call _ensure_authenticated at the same time
NumCallers == 2
\* SpecConc: authenticated sessions constructed in one behaviour
MaxGen == 4
\* SpecSched: start_scheduler and stop_scheduler calls in one behaviour
MaxSchedCalls == 4
\* SpecSched: the clock stops here (seconds)
MaxSchedNow == 3800
\* SpecRace: coroutines that use the client at the same time
NumRacers == 2
\* SpecRace: authenticated sessions built in one behaviour
MaxRaceGen == 2
\* SpecRace: requests and POSTs issued by all coroutines in one behaviour
MaxRaceIssued == 2
\* SpecRace: coroutines cancelled in one behaviour
MaxRaceCancels == 1
\* SpecSweep: accounts in fpl_api_instances, and passes of the loop
MaxAccounts == 3
MaxPasses == 2
\* SpecVal: transfers in one batch handed to validate_transfers
MaxBatch == 3
\* SpecCalc: the players of a squad and of a pool handed to
\* identify_transfer_targets, the largest value score and the largest
\* expected points of a squad member in select_lineup
MaxCalcSquad == 3
MaxPool == 2
MaxValue == 2
MaxPoints == 1

(* Program constants *)

\* self._cache_ttl
CacheTTL == 300
\* stop_after_attempt(5)
MaxAttempts == 5
\* self.session_expires_in
SessionExpiresIn == 3600
\* self.min_session_time
MinSessionTime == 300
\* max_retries of execute_transfers
MaxRetries == 3
\* self.max_refresh_attempts
MaxRefreshAttempts == 3
\* SessionManager.refresh_window
RefreshWindow == 300
\* SessionManager.refresh_interval
RefreshInterval == 60
\* TransferValidator.SQUAD_SIZE
SquadSize == 15
\* TransferValidator.MAX_PLAYERS_PER_CLUB
MaxPlayersPerClub == 3
\* TransferValidator.TRANSFERS_PER_GW
TransfersPerGW == 2
\* TransferEngine: budget_buffer * 10, in tenths of a million, and the
\* transfers suggested at most
BudgetBuffer == 5
MaxTargets == 2
\* LineupSelector: the size of a lineup
LineupSize == 11

----------------------------------------------------------------------------
(* The upstream, as the client sees it *)

\* HTTP statuses the upstream answers with
Statuses == {200, 400, 401, 403, 404, 429, 500, 502, 503}
\* an outcome of one request: an HTTP response, or an exception raised inside
\* the request: asyncio.TimeoutError ("timeout"), aiohttp.ClientConnectorError
\* ("connect"), anything else ("error": response.json() failing, a closed
\* session, ...)
Http(s) == [kind |-> "http", status |-> s]
Raised(k) == [kind |-> k, status |-> 0]
Outcomes == {Http(s) : s \in Statuses} \cup {Raised(k) : k \in {"timeout", "connect", "error"}}
\* a 200 response whose body "await response.json()" cannot parse: the
\* exception is raised after the status has been seen
BadBody == [kind |-> "body", status |-> 200]
\* the outcomes of a request of _make_request_with_retry, which reads the body
RequestOutcomes == Outcomes \cup {BadBody}
\* what a call records when a run of the body ends before any request
Note(k) == [kind |-> k, status |-> 0]
NoOutcome == Note("")

\* the statuses _make_request_with_retry raises RetryableAPIError for
RetryableStatuses == {Http(s) : s \in {429, 500, 502, 503}}
\* the exceptions the tenacity decorator retries besides RetryableAPIError
RetryableFailures == {Raised("timeout"), Raised("connect")}

\* outcome of the headless login flow of _authenticate
LoginOutcomes == {"cookies", "nocookies", "exception"}

\* two response bodies the upstream may serve for one URL tell a stale
\* answer from a fresh one
Versions == {1, 2}

\* what the probe of _is_session_valid may come back with
ProbeOutcomes == {Http(200), Http(401), Raised("error")}

\* the wrappers around _make_request_with_retry and the request each issues
Wrappers == {"get_bootstrap_data", "get_player_data", "get_team_data"}

WrapperUrl(w) ==
    CASE w = "get_bootstrap_data" -> "bootstrap-static"
      [] w = "get_player_data"    -> "element-summary"
      [] OTHER                    -> "entry"

WrapperCacheable(w) == w = "get_bootstrap_data"

WrapperAuthenticated(w) == w = "get_team_data"

URLs == {WrapperUrl(w) : w \in Wrappers}

NoBody == [url |-> "", ver |-> 0]
NoEntry == [present |-> FALSE, body |-> NoBody, ts |-> 0]

----------------------------------------------------------------------------
(* FPLAPI: cache *)

\* _is_cached: a live entry is a hit; an expired one is deleted
\* a lookup that still serves an entry exactly ttl seconds old
IsCachedHitInclusive(cache, url, t) ==
    cache[url].present /\ t - cache[url].ts <= CacheTTL

IsCachedHit(cache, url, t) ==
    cache[url].present /\ t - cache[url].ts < CacheTTL

IsCachedCache(cache, url, t) ==
    IF cache[url].present /\ ~(t - cache[url].ts < CacheTTL)
    THEN [cache EXCEPT ![url] = NoEntry]
    ELSE cache

\* _cache_response
CacheResponse(cache, url, body, t) ==
    [cache EXCEPT ![url] = [present |-> TRUE, body |-> body, ts |-> t]]

----------------------------------------------------------------------------
(* FPLAPI: authentication *)

\* an expiry test that already fires on the first second of the window
IsSessionExpiredInclusive(c, t) ==
    IF c.last_auth_time = -1
    THEN TRUE
    ELSE t - c.last_auth_time >= SessionExpiresIn - MinSessionTime

\* _is_session_expired
IsSessionExpired(c, t) ==
    IF c.last_auth_time = -1
    THEN TRUE
    ELSE t - c.last_auth_time > SessionExpiresIn - MinSessionTime

\* _is_session_valid: the probe request on the authenticated session; a
\* closed session raises, which the method turns into False
IsSessionValid(c, probe) ==
    IF c.auth = "none" THEN FALSE
    ELSE IF c.auth = "closed" THEN FALSE
    ELSE probe = Http(200)

\* does _is_session_valid put a request on the wire
ProbeSent(c) == c.auth = "open"

\* the authenticated session after "await self.authenticated_session.close()"
ClosedAuth(c) == IF c.auth = "none" THEN "none" ELSE "closed"

\* an _authenticate that opens a session without credentials
AuthenticateAnonymous(c, t, login) ==
    IF c.has_token \/ ~c.has_password
    THEN [ok |-> TRUE,
          c |-> [c EXCEPT !.auth = "open", !.last_auth_time = t],
          logins |-> 0]
    ELSE IF login = "cookies"
    THEN [ok |-> TRUE,
          c |-> [c EXCEPT !.auth = "open", !.last_auth_time = t,
                          !.has_token = TRUE],
          logins |-> 1]
    ELSE [ok |-> FALSE,
          c |-> [c EXCEPT !.auth = ClosedAuth(c)],
          logins |-> 1]

\* an _authenticate that tries the username and password first
AuthenticatePasswordFirst(c, t, login) ==
    IF c.has_password
    THEN IF login = "cookies"
         THEN [ok |-> TRUE,
               c |-> [c EXCEPT !.auth = "open", !.last_auth_time = t,
                               !.has_token = TRUE],
               logins |-> 1]
         ELSE [ok |-> FALSE,
               c |-> [c EXCEPT !.auth = ClosedAuth(c)],
               logins |-> 1]
    ELSE IF c.has_token
    THEN [ok |-> TRUE,
          c |-> [c EXCEPT !.auth = "open", !.last_auth_time = t],
          logins |-> 0]
    ELSE [ok |-> FALSE,
          c |-> [c EXCEPT !.auth = ClosedAuth(c)],
          logins |-> 0]

\* an _authenticate that stamps last_auth_time before it knows the outcome
AuthenticateStamping(c, t, login) ==
    IF c.has_token
    THEN [ok |-> TRUE,
          c |-> [c EXCEPT !.auth = "open", !.last_auth_time = t],
          logins |-> 0]
    ELSE IF c.has_password
    THEN IF login = "cookies"
         THEN [ok |-> TRUE,
               c |-> [c EXCEPT !.auth = "open", !.last_auth_time = t,
                               !.has_token = TRUE],
               logins |-> 1]
         ELSE [ok |-> FALSE,
               c |-> [c EXCEPT !.auth = ClosedAuth(c), !.last_auth_time = t],
               logins |-> 1]
    ELSE [ok |-> FALSE,
          c |-> [c EXCEPT !.auth = ClosedAuth(c), !.last_auth_time = t],
          logins |-> 0]

\* _authenticate: [ok, c, logins]; logins counts headless login flows started
Authenticate(c, t, login) ==
    IF c.has_token
    THEN [ok |-> TRUE,
          c |-> [c EXCEPT !.auth = "open", !.last_auth_time = t],
          logins |-> 0]
    ELSE IF c.has_password
    THEN IF login = "cookies"
         THEN [ok |-> TRUE,
               c |-> [c EXCEPT !.auth = "open", !.last_auth_time = t,
                               !.has_token = TRUE],
               logins |-> 1]
         ELSE [ok |-> FALSE,
               c |-> [c EXCEPT !.auth = ClosedAuth(c)],
               logins |-> 1]
    ELSE [ok |-> FALSE,
          c |-> [c EXCEPT !.auth = ClosedAuth(c)],
          logins |-> 0]

\* an _ensure_authenticated that trusts an unexpired session without probing
EnsureAuthenticatedNoProbe(c, t, probe, login) ==
    LET a == Authenticate(c, t, login) IN
    IF c.auth = "none" \/ IsSessionExpired(c, t)
    THEN [ok |-> a.ok, c |-> a.c, logins |-> a.logins, probes |-> 0, auths |-> 1]
    ELSE [ok |-> TRUE, c |-> c, logins |-> 0, probes |-> 0, auths |-> 0]

\* _ensure_authenticated: [ok, c, logins, probes, auths]
EnsureAuthenticated(c, t, probe, login) ==
    LET a == Authenticate(c, t, login) IN
    IF c.auth = "none"
    THEN [ok |-> a.ok, c |-> a.c, logins |-> a.logins, probes |-> 0, auths |-> 1]
    ELSE IF IsSessionExpired(c, t)
    THEN [ok |-> a.ok, c |-> a.c, logins |-> a.logins, probes |-> 0, auths |-> 1]
    ELSE IF ~IsSessionValid(c, probe)
    THEN [ok |-> a.ok, c |-> a.c, logins |-> a.logins,
          probes |-> IF ProbeSent(c) THEN 1 ELSE 0, auths |-> 1]
    ELSE [ok |-> TRUE, c |-> c, logins |-> 0, probes |-> 1, auths |-> 0]

----------------------------------------------------------------------------
(* FPLAPI: _make_request_with_retry under the tenacity decorator *)

\* retry_if_exception_type((RetryableAPIError, TimeoutError, ClientConnectorError))
\* a retry predicate without the timeout and connection errors
RaisesRetryableStatusOnly(outcome, reauthOk) ==
    \/ outcome \in RetryableStatuses
    \/ outcome = Http(401) /\ reauthOk

\* a retry predicate that retries every error status
RaisesRetryableAnyError(outcome, reauthOk) ==
    \/ outcome.kind = "http" /\ outcome.status >= 400 /\ outcome # Http(401)
    \/ outcome \in RetryableFailures
    \/ outcome = Http(401) /\ reauthOk

RaisesRetryable(outcome, reauthOk) ==
    \/ outcome \in RetryableStatuses
    \/ outcome \in RetryableFailures
    \/ outcome = Http(401) /\ reauthOk

IdleReq ==
    [pc |-> "idle", wrapper |-> "", url |-> "", method |-> "GET",
     cacheable |-> FALSE, authenticated |-> FALSE,
     attempt |-> 0, net |-> 0, probes |-> 0, logins |-> 0, reauth |-> 0,
     sleeps |-> 0, logs |-> 0, last |-> NoOutcome,
     inner |-> "pending", outer |-> "pending", body |-> NoBody,
     entry0 |-> NoEntry]

\* the wrapper's "except Exception: return None"
\* a wrapper without its try/except
WrapperResultUncaught(inner) == inner

WrapperResult(inner) == IF inner = "raise" THEN "none" ELSE inner

\* the state of the call once one run of the function body has ended
Finish(r, inner, body) ==
    [r EXCEPT !.pc = "returned", !.inner = inner,
              !.outer = WrapperResult(inner), !.body = body]

\* a stop condition that allows one attempt more
AfterRaiseOffByOne(r) ==
    IF r.attempt > MaxAttempts
    THEN Finish(r, "raise", NoBody)
    ELSE [r EXCEPT !.pc = "backoff"]

\* the decorator after a run of the body raised a retried exception:
\* stop_after_attempt(5) with reraise=True
AfterRaise(r) ==
    IF r.attempt >= MaxAttempts
    THEN Finish(r, "raise", NoBody)
    ELSE [r EXCEPT !.pc = "backoff"]

\* a wrapper is called (the client has a team id configured)
StartRequest(w) ==
    /\ req.pc = "idle"
    /\ exec.pc = "idle"
    /\ req' = [IdleReq EXCEPT !.pc = "attempt", !.wrapper = w,
                              !.url = WrapperUrl(w),
                              !.cacheable = WrapperCacheable(w),
                              !.authenticated = WrapperAuthenticated(w),
                              !.entry0 = client.cache[WrapperUrl(w)]]
    /\ UNCHANGED <<now, client, exec, idleVars>>

Call == \E w \in Wrappers : StartRequest(w)

\* log_api_call records of a run of the body whose request ended in seen:
\* line 108 for a response, lines 132 and 139 in the handlers of what the
\* request or the reading of the body raised; RetryableAPIError is re-raised
\* without a record (134-136)
ApiCallRecords(seen) ==
    CASE seen.kind = "http" -> 1
      [] seen.kind = "body" -> 2
      [] OTHER              -> 1

\* lines 107-140: the request on session_to_use and the branch on its outcome;
\* r and c are the call and the client when the request is about to be made
SendRequest(r, c, outcome, body, relogin) ==
    LET session_to_use == IF r.authenticated THEN c.auth ELSE c.session
        \* a request on a closed session raises before anything is sent
        seen == IF session_to_use = "closed" THEN Raised("error") ELSE outcome
        sent == IF session_to_use = "closed" THEN 0 ELSE 1
        r2 == [r EXCEPT !.net = r.net + sent, !.last = seen,
                        !.logs = r.logs + ApiCallRecords(seen)]
        re == Authenticate(c, now, relogin)
        r3 == [r2 EXCEPT !.reauth = r2.reauth + 1, !.logins = r2.logins + re.logins]
    IN
    IF seen = Http(200)
    THEN /\ req' = Finish(r2, "value", body)
         /\ client' = IF r.method = "GET" /\ r.cacheable
                      THEN [c EXCEPT !.cache = CacheResponse(c.cache, r.url, body, now)]
                      ELSE c
    ELSE IF seen = Http(401)
    THEN /\ req' = IF RaisesRetryable(seen, re.ok) THEN AfterRaise(r3)
                   ELSE Finish(r3, "none", NoBody)
         /\ client' = re.c
    ELSE /\ req' = IF RaisesRetryable(seen, FALSE) THEN AfterRaise(r2)
                   ELSE Finish(r2, "none", NoBody)
         /\ client' = c

\* the inputs a request consumes: the upstream's answer, the body of a 200,
\* and the login flow's outcome if a 401 makes a password client log in
Send(r, c) ==
    \E outcome \in RequestOutcomes :
       IF outcome = Http(200)
       THEN \E ver \in Versions : SendRequest(r, c, outcome, [url |-> r.url, ver |-> ver], "nocookies")
       ELSE IF outcome = Http(401) /\ ~c.has_token /\ c.has_password
       THEN \E relogin \in LoginOutcomes : SendRequest(r, c, outcome, NoBody, relogin)
       ELSE SendRequest(r, c, outcome, NoBody, "nocookies")

\* lines 92-105: pick the session, authenticating first if asked to
WithSession(r, c) ==
    IF ~r.authenticated
    THEN IF c.session = "none"
         THEN /\ req' = Finish([r EXCEPT !.last = Note("nosession"),
                                         !.logs = r.logs + 1], "none", NoBody)
              /\ client' = c
         ELSE Send(r, c)
    ELSE \E probe \in ProbeOutcomes, login \in LoginOutcomes :
           LET ens == EnsureAuthenticated(c, now, probe, login)
               r1 == [r EXCEPT !.probes = r.probes + ens.probes,
                               !.logins = r.logins + ens.logins]
           IN IF ~ens.ok
              THEN /\ req' = Finish([r1 EXCEPT !.last = Note("noauth"),
                                               !.logs = r1.logs + 1], "none", NoBody)
                   /\ client' = ens.c
              ELSE Send(r1, ens.c)

\* one run of the body of _make_request_with_retry
Attempt ==
    /\ req.pc = "attempt"
    /\ LET r0 == [req EXCEPT !.attempt = req.attempt + 1]
           useCache == r0.method = "GET" /\ r0.cacheable
       IN IF useCache /\ IsCachedHit(client.cache, r0.url, now)
          THEN /\ req' = Finish([r0 EXCEPT !.last = Note("cache"),
                                          !.logs = r0.logs + 1], "value",
                                client.cache[r0.url].body)
               /\ client' = client
          ELSE WithSession(r0, IF useCache
                               THEN [client EXCEPT !.cache = IsCachedCache(client.cache, r0.url, now)]
                               ELSE client)
    /\ UNCHANGED <<now, exec, idleVars>>

\* the decorator sleeps and runs the body again
Backoff ==
    /\ req.pc = "backoff"
    /\ req' = [req EXCEPT !.pc = "attempt", !.sleeps = req.sleeps + 1]
    /\ UNCHANGED <<now, client, exec, idleVars>>

\* the caller takes the result
Return ==
    /\ req.pc = "returned"
    /\ exec.pc = "idle"
    /\ req' = IdleReq
    /\ UNCHANGED <<now, client, exec, idleVars>>

----------------------------------------------------------------------------
(* TransferValidator: the players, the batch and the six checks *)

\* a key the dictionary does not have, or a None value
Absent == -1
\* a chance_of_playing_next_round that is text, not a number
TextChance == -2

\* a player dictionary; element_type 0 and team 0 are the defaults the code
\* reads for a missing key
Player(id, element_type, team, now_cost) ==
    [kind |-> "dict", id |-> id, element_type |-> element_type, team |-> team,
     now_cost |-> now_cost, selling_price |-> Absent,
     status |-> "a", chance |-> Absent]

\* a transfer without the key, and one that names the player by element id
NoPlayer == [Player(0, 0, 0, Absent) EXCEPT !.kind = "none"]
ElementId(id) == [Player(id, 0, 0, Absent) EXCEPT !.kind = "int"]

Transfer(out, in) == [out |-> out, in |-> in]

\* position limits that allow the two goalkeepers of a squad
PositionLimitsTwoKeepers ==
    [et \in 1..4 |->
        CASE et = 1 -> [min |-> 1, max |-> 2]
          [] et = 2 -> [min |-> 3, max |-> 5]
          [] et = 3 -> [min |-> 3, max |-> 5]
          [] OTHER  -> [min |-> 1, max |-> 3]]

\* TransferValidator.POSITION_LIMITS
PositionLimits ==
    [et \in 1..4 |->
        CASE et = 1 -> [min |-> 1, max |-> 1]
          [] et = 2 -> [min |-> 3, max |-> 5]
          [] et = 3 -> [min |-> 3, max |-> 5]
          [] OTHER  -> [min |-> 1, max |-> 3]]

\* TransferValidator.ALLOWED_FORMATIONS
AllowedFormations ==
    {<<1, 3, 4, 3>>, <<1, 3, 5, 2>>, <<1, 4, 3, 3>>, <<1, 4, 4, 2>>,
     <<1, 4, 5, 1>>, <<1, 5, 3, 2>>, <<1, 5, 4, 1>>}

Msg(code, level) == [code |-> code, level |-> level]

\* result['status'] = 'fail' and result['messages'].append(...)
Fail(r, code, level) ==
    [r EXCEPT !.status = "fail", !.messages = Append(r.messages, Msg(code, level))]

\* result['messages'].append(...) alone
Note2(r, code, level) ==
    [r EXCEPT !.messages = Append(r.messages, Msg(code, level))]

\* n copies of one message appended
RECURSIVE Repeat(_, _, _, _, _)
Repeat(r, n, code, level, fails) ==
    IF n = 0 THEN r
    ELSE Repeat(IF fails THEN Fail(r, code, level) ELSE Note2(r, code, level),
                n - 1, code, level, fails)

\* _validate_single_transfer
ValidateSingleTransfer(tr, r) ==
    IF tr.out.kind = "none" \/ tr.in.kind = "none"
    THEN Fail(r, "INVALID_TRANSFER_FORMAT", "fail")
    ELSE IF tr.out.kind # "dict" \/ tr.in.kind # "dict"
    THEN Fail(r, "INVALID_PLAYER_DATA", "fail")
    ELSE r

\* validate_transfers lines 57-58
RECURSIVE ValidateEach(_, _, _)
ValidateEach(transfers, i, r) ==
    IF i > Len(transfers) THEN r
    ELSE ValidateEach(transfers, i + 1, ValidateSingleTransfer(transfers[i], r))

\* the squad without the players whose id is that of out
Without(squad, out) ==
    LET Keeps(p) == p.id # out.id IN SelectSeq(squad, Keeps)

\* lines 140-153: the simulated squad after the transfers from i on
RECURSIVE FinalSquad(_, _, _)
FinalSquad(transfers, i, squad) ==
    IF i > Len(transfers) THEN squad
    ELSE LET tr == transfers[i]
             removed == IF tr.out.kind = "dict" THEN Without(squad, tr.out) ELSE squad
             added == IF tr.in.kind = "dict" THEN Append(removed, tr.in) ELSE removed
         IN FinalSquad(transfers, i + 1, added)

\* position_counts[et] of a squad
PositionCount(squad, et) ==
    Cardinality({i \in DOMAIN squad : squad[i].element_type = et})

\* club_counts[club] of a squad
ClubCount(squad, club) ==
    Cardinality({i \in DOMAIN squad : squad[i].team = club})

\* the clubs of club_counts
Clubs(squad) == {squad[i].team : i \in DOMAIN squad}


\* a size check that only rejects a squad that is too small
CheckSquadSizeAtLeast(final, r) ==
    IF Len(final) < SquadSize THEN Fail(r, "INVALID_SQUAD_SIZE", "fail") ELSE r

\* lines 155-163: "Check squad size"
CheckSquadSize(final, r) ==
    IF Len(final) # SquadSize THEN Fail(r, "INVALID_SQUAD_SIZE", "fail") ELSE r

\* lines 165-182: "Check position constraints", one message per position
CheckPositions(final, r) ==
    LET bad == {et \in 1..4 : \/ PositionCount(final, et) < PositionLimits[et].min
                              \/ PositionCount(final, et) > PositionLimits[et].max}
    IN Repeat(r, Cardinality(bad), "INVALID_POSITION_COUNT", "fail", TRUE)

\* a club check that tolerates a fourth player
CheckClubsSlack(final, r) ==
    LET full == {club \in Clubs(final) : ClubCount(final, club) > MaxPlayersPerClub + 1}
    IN Repeat(r, Cardinality(full), "CLUB_LIMIT_EXCEEDED", "fail", TRUE)

\* lines 184-199: "Check club limits", one message per club
CheckClubs(final, r) ==
    LET full == {club \in Clubs(final) : ClubCount(final, club) > MaxPlayersPerClub}
    IN Repeat(r, Cardinality(full), "CLUB_LIMIT_EXCEEDED", "fail", TRUE)

\* _validate_squad_constraints: squad size, position counts, club counts
ValidateSquadConstraints(transfers, squad, r) ==
    LET final == FinalSquad(transfers, 1, squad) IN
    CheckClubs(final, CheckPositions(final, CheckSquadSize(final, r)))

\* player.get('now_cost', player.get('selling_price', 0)) of a dictionary,
\* 0 for anything else
Price(p) ==
    IF p.kind # "dict" THEN 0
    ELSE IF p.now_cost # Absent THEN p.now_cost
    ELSE IF p.selling_price # Absent THEN p.selling_price
    ELSE 0

\* total_sold and total_cost of lines 217-232
RECURSIVE TotalSold(_, _)
TotalSold(transfers, i) ==
    IF i > Len(transfers) THEN 0
    ELSE Price(transfers[i].out) + TotalSold(transfers, i + 1)

RECURSIVE TotalCost(_, _)
TotalCost(transfers, i) ==
    IF i > Len(transfers) THEN 0
    ELSE Price(transfers[i].in) + TotalCost(transfers, i + 1)

\* a budget check that also rejects a batch that uses the budget up
ValidateBudgetStrict(transfers, budget, r) ==
    LET final_budget == budget + TotalSold(transfers, 1) - TotalCost(transfers, 1) IN
    IF final_budget <= 0 THEN Fail(r, "INSUFFICIENT_BUDGET", "fail") ELSE r

\* _validate_budget
ValidateBudget(transfers, budget, r) ==
    LET final_budget == budget + TotalSold(transfers, 1) - TotalCost(transfers, 1) IN
    IF final_budget < 0 THEN Fail(r, "INSUFFICIENT_BUDGET", "fail") ELSE r

\* final_squad[:11]
StartingXI(final) ==
    SubSeq(final, 1, IF Len(final) < 11 THEN Len(final) ELSE 11)

\* _validate_formation
ValidateFormation(transfers, squad, r) ==
    LET xi == StartingXI(FinalSquad(transfers, 1, squad))
        formation == <<PositionCount(xi, 1), PositionCount(xi, 2),
                       PositionCount(xi, 3), PositionCount(xi, 4)>>
    IN IF formation \notin AllowedFormations
       THEN Note2(r, "INVALID_FORMATION", "warn") ELSE r

\* the chips argument: None, a dictionary with one chip active, or a list of
\* chip names (which has no get method)
ChipInputs == {"none", "wildcard", "freehit", "list"}

\* a transfer limit that lets a third transfer through
ValidateChipsAndTransfersSlack(transfers, chips, r) ==
    IF chips = "list"
    THEN Note2(r, "CHIP_VALIDATION_ERROR", "error")
    ELSE IF chips # "wildcard" /\ chips # "freehit" /\ Len(transfers) > TransfersPerGW + 1
    THEN Note2(r, "TRANSFER_LIMIT_EXCEEDED", "warn")
    ELSE r

\* _validate_chips_and_transfers
ValidateChipsAndTransfers(transfers, chips, r) ==
    IF chips = "list"
    THEN Note2(r, "CHIP_VALIDATION_ERROR", "error")
    ELSE IF chips # "wildcard" /\ chips # "freehit" /\ Len(transfers) > TransfersPerGW
    THEN Note2(r, "TRANSFER_LIMIT_EXCEEDED", "warn")
    ELSE r

\* an availability check whose thresholds include 25 and 75
RECURSIVE ValidatePlayerAvailabilityInclusive(_, _, _)
ValidatePlayerAvailabilityInclusive(transfers, i, r) ==
    IF i > Len(transfers) THEN r
    ELSE LET player_in == transfers[i].in
             r1 == IF player_in.status # "a"
                   THEN Note2(r, "PLAYER_UNAVAILABLE", "warn") ELSE r
             chance_next == player_in.chance
         IN IF player_in.kind # "dict"
            THEN ValidatePlayerAvailabilityInclusive(transfers, i + 1, r)
            ELSE IF chance_next = TextChance
            THEN Note2(r1, "AVAILABILITY_VALIDATION_ERROR", "error")
            ELSE IF chance_next # Absent /\ chance_next <= 75
            THEN ValidatePlayerAvailabilityInclusive(transfers, i + 1,
                    IF chance_next <= 25
                    THEN Fail(r1, "LOW_CHANCE_OF_PLAYING", "fail")
                    ELSE Note2(r1, "LOW_CHANCE_OF_PLAYING", "warn"))
            ELSE ValidatePlayerAvailabilityInclusive(transfers, i + 1, r1)

\* _validate_player_availability from transfer i on; comparing a text chance
\* with a number raises, which ends the loop with an error message
RECURSIVE ValidatePlayerAvailability(_, _, _)
ValidatePlayerAvailability(transfers, i, r) ==
    IF i > Len(transfers) THEN r
    ELSE LET player_in == transfers[i].in
             r1 == IF player_in.status # "a"
                   THEN Note2(r, "PLAYER_UNAVAILABLE", "warn") ELSE r
             chance_next == player_in.chance
         IN IF player_in.kind # "dict"
            THEN ValidatePlayerAvailability(transfers, i + 1, r)
            ELSE IF chance_next = TextChance
            THEN Note2(r1, "AVAILABILITY_VALIDATION_ERROR", "error")
            ELSE IF chance_next # Absent /\ chance_next < 75
            THEN ValidatePlayerAvailability(transfers, i + 1,
                    IF chance_next < 25
                    THEN Fail(r1, "LOW_CHANCE_OF_PLAYING", "fail")
                    ELSE Note2(r1, "LOW_CHANCE_OF_PLAYING", "warn"))
            ELSE ValidatePlayerAvailability(transfers, i + 1, r1)

\* lines 75-86: the override step
OverrideStep(r, override) ==
    IF r.status = "fail"
    THEN IF override
         THEN [Note2(r, "OVERRIDE_USED", "warn") EXCEPT !.override_required = FALSE]
         ELSE [r EXCEPT !.override_required = TRUE]
    ELSE r

\* validate_transfers; given is false when the caller passes None for the
\* batch: enumerate(None) raises outside the checks' own handlers
ValidateTransfers(given, transfers, squad, budget, chips, override) ==
    IF ~given
    THEN [status |-> "fail", messages |-> <<Msg("VALIDATION_ERROR", "error")>>,
          override_required |-> FALSE]
    ELSE LET r0 == [status |-> "pass", messages |-> <<>>, override_required |-> FALSE]
             r1 == ValidateEach(transfers, 1, r0)
             r2 == ValidateSquadConstraints(transfers, squad, r1)
             r3 == ValidateBudget(transfers, budget, r2)
             r4 == ValidateFormation(transfers, squad, r3)
             r5 == ValidateChipsAndTransfers(transfers, chips, r4)
             r6 == ValidatePlayerAvailability(transfers, 1, r5)
         IN OverrideStep(r6, override)

\* the six checks of lines 56-73, numbered in the order the code runs them
CheckOrder == <<1, 2, 3, 4, 5, 6>>

\* one of the six checks applied to the result so far
ApplyCheck(k, transfers, squad, budget, chips, r) ==
    CASE k = 1 -> ValidateEach(transfers, 1, r)
      [] k = 2 -> ValidateSquadConstraints(transfers, squad, r)
      [] k = 3 -> ValidateBudget(transfers, budget, r)
      [] k = 4 -> ValidateFormation(transfers, squad, r)
      [] k = 5 -> ValidateChipsAndTransfers(transfers, chips, r)
      [] k = 6 -> ValidatePlayerAvailability(transfers, 1, r)

\* the checks run in a given order on one validation_result
RECURSIVE RunChecks(_, _, _, _, _, _, _)
RunChecks(order, i, transfers, squad, budget, chips, r) ==
    IF i > Len(order) THEN r
    ELSE RunChecks(order, i + 1, transfers, squad, budget, chips,
                   ApplyCheck(order[i], transfers, squad, budget, chips, r))

\* a validator that works on the caller's list instead of a copy
CurrentSquadAfterInPlace(given, transfers, squad) ==
    IF given THEN FinalSquad(transfers, 1, squad) ELSE squad

\* the caller's current_squad once validate_transfers has returned: lines 140
\* and 259 work on list(current_squad), and line 149 rebinds the copy
CurrentSquadAfter(given, transfers, squad) == squad

\* no call of validate_transfers made; again is the verdict of a second call
\* with the same arguments
NoVal == [pc |-> "idle", given |-> TRUE, transfers |-> <<>>, squad |-> <<>>,
          budget |-> 0, chips |-> "none", override |-> FALSE,
          verdict |-> [status |-> "", messages |-> <<>>, override_required |-> FALSE],
          again |-> [status |-> "", messages |-> <<>>, override_required |-> FALSE]]

----------------------------------------------------------------------------
(* TransferValidator.validate_transfers, as execute_transfers sees it *)

\* what execute_transfers is handed: None, an empty list or a batch
TransferInputs == {"none", "empty", "batch"}
\* the status the six checks of validate_transfers leave for a batch
CheckStatuses == {"pass", "fail"}

\* validate_transfers lines 49-99: the override step on the status the checks
\* accumulated; iterating over None raises, which the outer except turns into
\* a fail verdict that asks for no override
Verdict(transfers, checks, override) ==
    IF transfers = "none"
    THEN [status |-> "fail", override_required |-> FALSE,
          messages |-> {"VALIDATION_ERROR"}]
    ELSE IF checks = "fail"
    THEN [status |-> "fail", override_required |-> ~override,
          messages |-> IF override THEN {"CHECK_FAILED", "OVERRIDE_USED"}
                       ELSE {"CHECK_FAILED"}]
    ELSE [status |-> "pass", override_required |-> FALSE, messages |-> {}]

NoVerdict == [status |-> "", override_required |-> FALSE, messages |-> {}]

\* execute_transfers: "validation failed and override is not enabled"
\* a check that lets every verdict through
BlockingNever(v) == FALSE

Blocking(v) == v.status = "fail" /\ v.override_required

----------------------------------------------------------------------------
(* FPLAPI.execute_transfers: services/fpl_api.py ("fpl_api") and           *)
(* services/fpl_api_service/api.py ("fpl_api_service")                     *)

Impls == {"fpl_api", "fpl_api_service"}

IdleExec ==
    [pc |-> "idle", impl |-> "", have_squad |-> FALSE, transfers |-> "",
     validated |-> FALSE, verdict |-> NoVerdict,
     attempt |-> 0, posts |-> 0, gets |-> 0, probes |-> 0, logins |-> 0,
     ensures |-> 0, auths |-> 0, sleeps |-> 0, last |-> NoOutcome,
     boot_hit |-> FALSE, ensured |-> "",
     ok_records |-> 0, fail_records |-> 0,
     result |-> "pending", pair |-> FALSE, messages |-> {}]

\* "return False" / "return False, messages" / "return True"
ExecReturn(e, result, pair, messages) ==
    [e EXCEPT !.pc = "returned", !.result = result, !.pair = pair,
              !.messages = messages]

\* the call begins; only the service implementation validates, and only when
\* it is given both the squad and the budget: it then fetches the bootstrap
\* data for the gameweek first
ExecStart ==
    /\ req.pc = "idle"
    /\ exec.pc = "idle"
    /\ \E impl \in Impls, have_squad \in BOOLEAN :
          LET e == [IdleExec EXCEPT !.impl = impl, !.have_squad = have_squad] IN
          IF impl = "fpl_api_service" /\ have_squad
          THEN /\ exec' = [e EXCEPT !.pc = "bootstrap"]
               /\ req' = [IdleReq EXCEPT !.pc = "attempt",
                             !.wrapper = "get_bootstrap_data",
                             !.url = WrapperUrl("get_bootstrap_data"),
                             !.cacheable = WrapperCacheable("get_bootstrap_data"),
                             !.authenticated = WrapperAuthenticated("get_bootstrap_data"),
                             !.entry0 = client.cache[WrapperUrl("get_bootstrap_data")]]
          ELSE /\ exec' = [e EXCEPT !.pc = "auth"]
               /\ req' = req
    /\ UNCHANGED <<now, client, idleVars>>

\* api.py lines 422-431: get_bootstrap_data has returned; validate the batch
ExecValidate ==
    /\ exec.pc = "bootstrap"
    /\ req.pc = "returned"
    /\ \E transfers \in TransferInputs, checks \in CheckStatuses, override \in BOOLEAN :
          LET v == Verdict(transfers, checks, override)
              e == [exec EXCEPT !.transfers = transfers, !.validated = TRUE,
                                !.verdict = v, !.messages = v.messages,
                                !.boot_hit = (req.last = Note("cache")),
                                !.gets = req.net, !.logins = req.logins,
                                !.probes = req.probes, !.auths = req.reauth]
          IN exec' = IF Blocking(v)
                     THEN ExecReturn(e, "False", TRUE, v.messages)
                     ELSE [e EXCEPT !.pc = "auth"]
    /\ req' = IdleReq
    /\ UNCHANGED <<now, client, idleVars>>

\* "Ensure we're authenticated", then the format check of the batch
ExecAuth ==
    /\ exec.pc = "auth"
    /\ \E probe \in ProbeOutcomes, login \in LoginOutcomes, transfers \in TransferInputs :
          LET ens == EnsureAuthenticated(client, now, probe, login)
              batch == IF exec.validated THEN exec.transfers ELSE transfers
              e == [exec EXCEPT !.transfers = batch,
                                !.ensured = IF ens.ok THEN "ok" ELSE "failed",
                                !.ensures = exec.ensures + 1,
                                !.probes = exec.probes + ens.probes,
                                !.logins = exec.logins + ens.logins]
              service == exec.impl = "fpl_api_service"
          IN /\ client' = ens.c
             /\ exec' = IF ~ens.ok
                        THEN ExecReturn(e, "False", service,
                                        IF service THEN e.messages \cup {"AUTH_FAILED"} ELSE {})
                        ELSE IF batch # "batch"
                        THEN ExecReturn(e, "False", service,
                                        IF service THEN e.messages \cup {"INVALID_TRANSFERS_DATA"} ELSE {})
                        ELSE [e EXCEPT !.pc = "post"]
    /\ UNCHANGED <<now, req, idleVars>>

\* a loop that goes round once more
LastAttemptOffByOne(attempt) == ~(attempt < MaxRetries)

\* "if attempt < max_retries - 1: ... continue" does not apply
LastAttempt(attempt) == ~(attempt < MaxRetries - 1)

\* log_transfer_execution(out, in, success) for every transfer of the batch:
\* only services/fpl_api.py emits the records; the counters hold the records
\* of each transfer
LogTransferExecution(e, success) ==
    IF e.impl # "fpl_api" THEN e
    ELSE IF success THEN [e EXCEPT !.ok_records = e.ok_records + 1]
    ELSE [e EXCEPT !.fail_records = e.fail_records + 1]

\* one pass of "for attempt in range(max_retries)": the POST and the branch
\* on its outcome
PostAttempt(e, c, outcome, relogin) ==
    LET service == e.impl = "fpl_api_service"
        last_attempt == LastAttempt(e.attempt)
        seen == IF c.auth = "closed" THEN Raised("error") ELSE outcome
        sent == IF c.auth = "closed" THEN 0 ELSE 1
        e1 == [e EXCEPT !.posts = e.posts + sent, !.last = seen]
        re == Authenticate(c, now, relogin)
        e2 == [e1 EXCEPT !.auths = e1.auths + 1, !.logins = e1.logins + re.logins]
        exhausted(x) == ExecReturn(x, "False", service, IF service THEN x.messages ELSE {})
    IN
    IF c.auth = "none"
    THEN /\ exec' = ExecReturn(LogTransferExecution(e, FALSE), "False", FALSE, {})
         /\ client' = c
    ELSE IF seen = Http(200)
    THEN /\ exec' = ExecReturn(LogTransferExecution(e1, TRUE), "True", FALSE, {})
         /\ client' = c
    ELSE IF seen = Http(401)
    THEN /\ exec' = IF ~re.ok
                    THEN ExecReturn(LogTransferExecution(e2, FALSE), "False", FALSE, {})
                    ELSE IF last_attempt THEN exhausted(e2)
                    ELSE [e2 EXCEPT !.attempt = e2.attempt + 1]
         /\ client' = re.c
    ELSE IF seen.kind = "http"
    THEN /\ exec' = LET e3 == LogTransferExecution(e1, FALSE) IN
                    IF last_attempt
                    THEN ExecReturn(e3, "False", service,
                                    IF service
                                    THEN e3.messages \cup {"TRANSFER_EXECUTION_FAILED"}
                                    ELSE {})
                    ELSE [e3 EXCEPT !.attempt = e3.attempt + 1, !.sleeps = e3.sleeps + 1]
         /\ client' = c
    ELSE /\ exec' = IF last_attempt
                    THEN ExecReturn(LogTransferExecution(e1, FALSE), "False", FALSE, {})
                    ELSE [e1 EXCEPT !.attempt = e1.attempt + 1, !.sleeps = e1.sleeps + 1]
         /\ client' = c

ExecPost ==
    /\ exec.pc = "post"
    /\ \E outcome \in RequestOutcomes :
          IF outcome = Http(401) /\ ~client.has_token /\ client.has_password
          THEN \E relogin \in LoginOutcomes : PostAttempt(exec, client, outcome, relogin)
          ELSE PostAttempt(exec, client, outcome, "nocookies")
    /\ UNCHANGED <<now, req, idleVars>>

\* the caller takes the result
ExecDone ==
    /\ exec.pc = "returned"
    /\ exec' = IdleExec
    /\ UNCHANGED <<now, client, req, idleVars>>

----------------------------------------------------------------------------
(* The environment of a client *)

\* FPLAPI.__aenter__
AEnter ==
    /\ req.pc = "idle"
    /\ exec.pc = "idle"
    /\ client.session = "none"
    /\ client' = [client EXCEPT !.session = "open"]
    /\ UNCHANGED <<now, req, exec, idleVars>>

\* time passes between two calls
Tick ==
    /\ req.pc = "idle"
    /\ exec.pc = "idle"
    /\ now + TickStep <= 1 + MaxTicks * TickStep
    /\ now' = now + TickStep
    /\ UNCHANGED <<client, req, exec, idleVars>>

----------------------------------------------------------------------------
(* Construction *)

\* FPLAPI.__init__ for the credentials a deployment configures
NewClient(token, password) ==
    [session |-> "none", auth |-> "none", last_auth_time |-> -1,
     has_token |-> token, has_password |-> password,
     cache |-> [u \in URLs |-> NoEntry]]

\* SessionManager.__init__: refresh_failures and sessions for the one team
\* id of the client (expires_at -1: no session stored)
NewSessionManager == [failures |-> 0, expires_at |-> -1]

\* the last session operation and what it did (SpecAuth): its result, the
\* probes, logins and _authenticate calls it made, the probe's outcome, the
\* failure counter and the clock when it began; streak counts the failed
\* _authenticate calls since the last successful one
NoOp == [name |-> "", ok |-> FALSE, probes |-> 0, logins |-> 0, auths |-> 0,
         failures0 |-> 0, probe |-> NoOutcome, at |-> 0, streak |-> 0]
\* what the coroutines did in the current round (SpecConc)
NoConc == [gen |-> 0, auths |-> 0, logins |-> 0, probes |-> 0]
\* SessionManager.__init__ line 32: scheduler_task is None (0) and no task
\* runs _scheduler_loop; calls counts start_scheduler and stop_scheduler
\* calls, last names the last one
NoSched == [task |-> 0, loops |-> <<>>, calls |-> 0, last |-> ""]
\* no coroutine of SpecRace, no pass of SpecSweep, no call of SpecCalc
NoRace == [co |-> <<>>, gen |-> 0, issued |-> 0, cancels |-> 0]
NoSweep == [pc |-> "idle"]
NoCalc == [pc |-> "idle"]

Init ==
    /\ now = 1
    /\ \E token \in BOOLEAN, password \in BOOLEAN :
          client = NewClient(token, password)
    /\ req = IdleReq
    /\ exec = IdleExec
    /\ sm = NewSessionManager
    /\ op = NoOp
    /\ tasks = <<>>
    /\ conc = NoConc
    /\ val = NoVal
    /\ sched = NoSched
    /\ race = NoRace
    /\ sweep = NoSweep
    /\ calc = NoCalc

Next ==
    \/ Call
    \/ Attempt
    \/ Backoff
    \/ Return
    \/ ExecStart
    \/ ExecValidate
    \/ ExecAuth
    \/ ExecPost
    \/ ExecDone
    \/ AEnter
    \/ Tick

Spec == Init /\ [][Next]_vars

----------------------------------------------------------------------------
(* SpecAuth: the session operations, one at a time, on the session clock *)

\* the clock steps that put a session before, on and just past the point
\* where _is_session_expired turns true
AuthSteps == {MinSessionTime, SessionExpiresIn - 2 * MinSessionTime,
              SessionExpiresIn - MinSessionTime + 1}

AuthTick ==
    /\ \E d \in AuthSteps :
          /\ now + d <= MaxAuthNow
          /\ now' = now + d
    /\ UNCHANGED <<client, req, exec, sm, op, tasks, conc, val, sched, race, sweep, calc>>

\* the failed _authenticate calls in a row after an operation that made
\* auths calls, the last of which returned ok
Streak(streak, auths, ok) ==
    IF auths = 0 THEN streak ELSE IF ok THEN 0 ELSE streak + 1

\* a caller runs FPLAPI._ensure_authenticated
AuthEnsure ==
    /\ op.streak < MaxFailureCount
    /\ \E probe \in ProbeOutcomes, login \in LoginOutcomes :
          LET ens == EnsureAuthenticated(client, now, probe, login) IN
          /\ client' = ens.c
          /\ op' = [name |-> "_ensure_authenticated", ok |-> ens.ok,
                    probes |-> ens.probes, logins |-> ens.logins,
                    auths |-> ens.auths, failures0 |-> sm.failures,
                    probe |-> IF ens.probes = 1 THEN probe ELSE NoOutcome,
                    at |-> now,
                    streak |-> Streak(op.streak, ens.auths, ens.ok)]
    /\ UNCHANGED <<now, req, exec, sm, tasks, conc, val, sched, race, sweep, calc>>

\* SessionManager.is_session_expiring_soon
IsSessionExpiringSoon(m, t) ==
    IF m.expires_at = -1
    THEN TRUE
    ELSE t > m.expires_at - RefreshWindow

\* SessionManager.refresh_session: [sm, c, ok, logins]
RefreshSession(m, c, t, login) ==
    LET a == Authenticate(c, t, login) IN
    IF a.ok
    THEN [sm |-> [m EXCEPT !.failures = 0, !.expires_at = t + SessionExpiresIn],
          c |-> a.c, ok |-> TRUE, logins |-> a.logins]
    ELSE [sm |-> [m EXCEPT !.failures = m.failures + 1],
          c |-> a.c, ok |-> FALSE, logins |-> a.logins]

\* a caller runs refresh_session for the client
AuthRefresh ==
    /\ sm.failures < MaxFailureCount
    /\ op.streak < MaxFailureCount
    /\ \E login \in LoginOutcomes :
          LET r == RefreshSession(sm, client, now, login) IN
          /\ client' = r.c
          /\ sm' = r.sm
          /\ op' = [name |-> "refresh_session", ok |-> r.ok, probes |-> 0,
                    logins |-> r.logins, auths |-> 1, failures0 |-> sm.failures,
                    probe |-> NoOutcome, at |-> now,
                    streak |-> Streak(op.streak, 1, r.ok)]
    /\ UNCHANGED <<now, req, exec, tasks, conc, val, sched, race, sweep, calc>>

\* one pass of _scheduler_loop over the client: refresh if expiring soon
AuthSchedulerPass ==
    /\ sm.failures < MaxFailureCount
    /\ op.streak < MaxFailureCount
    /\ \E login \in LoginOutcomes :
          LET due == IsSessionExpiringSoon(sm, now)
              r == RefreshSession(sm, client, now, login)
          IN
          /\ client' = IF due THEN r.c ELSE client
          /\ sm' = IF due THEN r.sm ELSE sm
          /\ op' = [name |-> "_scheduler_loop", ok |-> due /\ r.ok, probes |-> 0,
                    logins |-> IF due THEN r.logins ELSE 0,
                    auths |-> IF due THEN 1 ELSE 0,
                    failures0 |-> sm.failures, probe |-> NoOutcome, at |-> now,
                    streak |-> IF due THEN Streak(op.streak, 1, r.ok) ELSE op.streak]
    /\ UNCHANGED <<now, req, exec, tasks, conc, val, sched, race, sweep, calc>>

\* a caller asks _is_session_expired
AuthIsExpired ==
    /\ op' = [NoOp EXCEPT !.name = "_is_session_expired",
                          !.ok = IsSessionExpired(client, now),
                          !.failures0 = sm.failures, !.at = now,
                          !.streak = op.streak]
    /\ UNCHANGED <<now, client, req, exec, sm, tasks, conc, val, sched, race, sweep, calc>>

\* a caller asks is_session_expiring_soon (get_session_status does)
AuthIsExpiringSoon ==
    /\ op' = [NoOp EXCEPT !.name = "is_session_expiring_soon",
                          !.ok = IsSessionExpiringSoon(sm, now),
                          !.failures0 = sm.failures, !.at = now,
                          !.streak = op.streak]
    /\ UNCHANGED <<now, client, req, exec, sm, tasks, conc, val, sched, race, sweep, calc>>

NextAuth ==
    \/ AuthEnsure
    \/ AuthRefresh
    \/ AuthSchedulerPass
    \/ AuthIsExpired
    \/ AuthIsExpiringSoon
    \/ AuthTick

SpecAuth == Init /\ [][NextAuth]_vars

----------------------------------------------------------------------------
(* SpecConc: coroutines of one event loop inside _ensure_authenticated; a   *)
(* step runs a coroutine from one suspension to the next                   *)

Callers == 1..NumCallers

IdleTask == [pc |-> "idle", basis |-> -1, seen |-> -1, ok |-> FALSE]

InitConc ==
    /\ now = 1
    /\ \E token \in BOOLEAN, password \in BOOLEAN :
          client = NewClient(token, password)
    /\ req = IdleReq
    /\ exec = IdleExec
    /\ sm = NewSessionManager
    /\ op = NoOp
    /\ tasks = [i \in Callers |-> IdleTask]
    /\ conc = NoConc
    /\ val = NoVal
    /\ sched = NoSched
    /\ race = NoRace
    /\ sweep = NoSweep
    /\ calc = NoCalc

\* every caller invokes _ensure_authenticated before any of them has run
ConcInvoke ==
    /\ \A i \in Callers : tasks[i].pc \in {"idle", "done"}
    /\ conc.gen + NumCallers <= MaxGen
    /\ tasks' = [i \in Callers |-> [IdleTask EXCEPT !.pc = "start"]]
    /\ conc' = [conc EXCEPT !.auths = 0, !.logins = 0, !.probes = 0]
    /\ UNCHANGED <<now, client, req, exec, sm, op, val, sched, race, sweep, calc>>

\* _authenticate lines 171-232 up to its next suspension: the token pair
\* builds the session at once, a password starts the headless login
ConcCreds(i, c, ts, cn) ==
    IF c.has_token
    THEN /\ client' = [c EXCEPT !.auth = "open", !.last_auth_time = now]
         /\ tasks' = [ts EXCEPT ![i].pc = "done", ![i].ok = TRUE]
         /\ conc' = [cn EXCEPT !.gen = cn.gen + 1]
    ELSE IF c.has_password
    THEN /\ client' = c
         /\ tasks' = [ts EXCEPT ![i].pc = "login"]
         /\ conc' = [cn EXCEPT !.logins = cn.logins + 1]
    ELSE /\ client' = c
         /\ tasks' = [ts EXCEPT ![i].pc = "done", ![i].ok = FALSE]
         /\ conc' = cn

\* _authenticate is entered by caller i, who decided on session number basis;
\* closing an open session may suspend the coroutine or return at once
ConcBegin(i, basis) ==
    LET ts == [tasks EXCEPT ![i].basis = basis]
        cn == [conc EXCEPT !.auths = conc.auths + 1]
        c1 == [client EXCEPT !.auth = ClosedAuth(client)]
    IN IF client.auth = "open"
       THEN \E suspends \in BOOLEAN :
               IF suspends
               THEN /\ client' = c1
                    /\ tasks' = [ts EXCEPT ![i].pc = "closing"]
                    /\ conc' = cn
               ELSE ConcCreds(i, c1, ts, cn)
       ELSE ConcCreds(i, c1, ts, cn)

\* _ensure_authenticated from its first line to its first suspension
ConcStart(i) ==
    /\ tasks[i].pc = "start"
    /\ IF client.auth = "none" \/ IsSessionExpired(client, now) \/ ~ProbeSent(client)
       THEN ConcBegin(i, conc.gen)
       ELSE /\ tasks' = [tasks EXCEPT ![i].pc = "probing", ![i].seen = conc.gen]
            /\ conc' = [conc EXCEPT !.probes = conc.probes + 1]
            /\ client' = client
    /\ UNCHANGED <<now, req, exec, sm, op, val, sched, race, sweep, calc>>

\* the probe of _is_session_valid comes back
ConcProbeDone(i) ==
    /\ tasks[i].pc = "probing"
    /\ \E probe \in ProbeOutcomes :
          IF probe = Http(200)
          THEN /\ tasks' = [tasks EXCEPT ![i].pc = "done", ![i].ok = TRUE]
               /\ UNCHANGED <<client, conc>>
          ELSE ConcBegin(i, tasks[i].seen)
    /\ UNCHANGED <<now, req, exec, sm, op, val, sched, race, sweep, calc>>

\* "await self.authenticated_session.close()" has returned
ConcAfterClose(i) ==
    /\ tasks[i].pc = "closing"
    /\ ConcCreds(i, client, tasks, conc)
    /\ UNCHANGED <<now, req, exec, sm, op, val, sched, race, sweep, calc>>

\* the headless login has ended and the cookies are read
ConcLoginDone(i) ==
    /\ tasks[i].pc = "login"
    /\ \E login \in LoginOutcomes :
          IF login = "cookies" \/ client.has_token
          THEN /\ client' = [client EXCEPT !.auth = "open", !.last_auth_time = now,
                                          !.has_token = TRUE]
               /\ tasks' = [tasks EXCEPT ![i].pc = "done", ![i].ok = TRUE]
               /\ conc' = [conc EXCEPT !.gen = conc.gen + 1]
          ELSE /\ tasks' = [tasks EXCEPT ![i].pc = "done", ![i].ok = FALSE]
               /\ UNCHANGED <<client, conc>>
    /\ UNCHANGED <<now, req, exec, sm, op, val, sched, race, sweep, calc>>

\* time passes between two rounds
ConcTick ==
    /\ \A i \in Callers : tasks[i].pc \in {"idle", "done"}
    /\ \E d \in AuthSteps :
          /\ now + d <= MaxAuthNow
          /\ now' = now + d
    /\ UNCHANGED <<client, req, exec, sm, op, tasks, conc, val, sched, race, sweep, calc>>

NextConc ==
    \/ ConcInvoke
    \/ \E i \in Callers : ConcStart(i)
    \/ \E i \in Callers : ConcProbeDone(i)
    \/ \E i \in Callers : ConcAfterClose(i)
    \/ \E i \in Callers : ConcLoginDone(i)
    \/ ConcTick

SpecConc == InitConc /\ [][NextConc]_vars

----------------------------------------------------------------------------
(* SpecSched: SessionManager.start_scheduler and stop_scheduler, and the    *)
(* tasks that run _scheduler_loop for the one client; a task takes a step   *)
(* from one suspension to the next                                         *)

\* a start_scheduler that creates a task whatever scheduler_task holds
StartCreatesAlways(task) == TRUE

\* line 191: "if self.scheduler_task is None"
StartCreates(task) == task = 0

\* a task created for _scheduler_loop: where it is suspended ("check": about
\* to run the body of the while loop, "refresh": inside refresh_session at
\* an await of the login flow, "sleep": in asyncio.sleep, "gone": ended),
\* whether cancel() has been called on it, and whether the CancelledError
\* reached it inside refresh_session
NewLoop == [pc |-> "check", cancel |-> FALSE, aborted |-> FALSE]

\* the tasks that still run the loop: not ended and not cancelled
Live(s) == {id \in DOMAIN s.loops : s.loops[id].pc # "gone" /\ ~s.loops[id].cancel}

\* _authenticate suspends in the headless login flow (lines 191-201) only
\* for a client that has a password and no token pair
LoginFlow(c) == ~c.has_token /\ c.has_password

InitSched == Init

\* start_scheduler
SchedStart ==
    /\ sched.calls < MaxSchedCalls
    /\ sched' = IF StartCreates(sched.task)
                THEN [sched EXCEPT !.task = Len(sched.loops) + 1,
                                   !.loops = Append(sched.loops, NewLoop),
                                   !.calls = sched.calls + 1,
                                   !.last = "started"]
                ELSE [sched EXCEPT !.calls = sched.calls + 1,
                                   !.last = "start_ignored"]
    /\ UNCHANGED <<now, client, req, exec, sm, op, tasks, conc, val, race, sweep, calc>>

\* stop_scheduler: cancel() on the task and the reference dropped, without
\* waiting for the task to end
SchedStop ==
    /\ sched.calls < MaxSchedCalls
    /\ sched' = IF sched.task # 0
                THEN [sched EXCEPT !.task = 0,
                                   !.loops[sched.task].cancel = TRUE,
                                   !.calls = sched.calls + 1,
                                   !.last = "stopped"]
                ELSE [sched EXCEPT !.calls = sched.calls + 1,
                                   !.last = "stop_ignored"]
    /\ UNCHANGED <<now, client, req, exec, sm, op, tasks, conc, val, race, sweep, calc>>

\* lines 174-183: the body of the while loop up to its next suspension;
\* refresh_session runs through when _authenticate does not suspend, and is
\* left in flight (the old session closed, line 168) when it does
LoopCheck(id) ==
    /\ sched.loops[id].pc = "check" /\ ~sched.loops[id].cancel
    /\ sm.failures < MaxFailureCount
    /\ IF ~IsSessionExpiringSoon(sm, now)
       THEN /\ sched' = [sched EXCEPT !.loops[id].pc = "sleep"]
            /\ UNCHANGED <<client, sm>>
       ELSE IF LoginFlow(client)
       THEN /\ sched' = [sched EXCEPT !.loops[id].pc = "refresh"]
            /\ client' = [client EXCEPT !.auth = ClosedAuth(client)]
            /\ UNCHANGED sm
       ELSE LET r == RefreshSession(sm, client, now, "nocookies") IN
            /\ sched' = [sched EXCEPT !.loops[id].pc = "sleep"]
            /\ client' = r.c
            /\ sm' = r.sm
    /\ UNCHANGED <<now, req, exec, op, tasks, conc, val, race, sweep, calc>>

\* the login flow ends and refresh_session records the renewal
LoopRefreshDone(id) ==
    /\ sched.loops[id].pc = "refresh" /\ ~sched.loops[id].cancel
    /\ \E login \in LoginOutcomes :
          LET r == RefreshSession(sm, client, now, login) IN
          /\ client' = r.c
          /\ sm' = r.sm
    /\ sched' = [sched EXCEPT !.loops[id].pc = "sleep"]
    /\ UNCHANGED <<now, req, exec, op, tasks, conc, val, race, sweep, calc>>

\* asyncio.sleep(self.refresh_interval) returns, no sooner than asked
LoopWake(id) ==
    /\ sched.loops[id].pc = "sleep" /\ ~sched.loops[id].cancel
    /\ \E d \in {RefreshInterval, SessionExpiresIn} :
          /\ now + d <= MaxSchedNow
          /\ now' = now + d
    /\ sched' = [sched EXCEPT !.loops[id].pc = "check"]
    /\ UNCHANGED <<client, req, exec, sm, op, tasks, conc, val, race, sweep, calc>>

\* the event loop resumes a cancelled task: CancelledError is raised at the
\* await it is suspended in; it is not an Exception, so neither
\* _authenticate (line 234), refresh_session (line 166) nor the loop (line
\* 185) catches it, and the task ends
LoopCancelled(id) ==
    /\ sched.loops[id].pc # "gone" /\ sched.loops[id].cancel
    /\ sched' = [sched EXCEPT !.loops[id].pc = "gone",
                              !.loops[id].aborted = (sched.loops[id].pc = "refresh")]
    /\ UNCHANGED <<now, client, req, exec, sm, op, tasks, conc, val, race, sweep, calc>>

NextSched ==
    \/ SchedStart
    \/ SchedStop
    \/ \E id \in DOMAIN sched.loops : LoopCheck(id)
    \/ \E id \in DOMAIN sched.loops : LoopRefreshDone(id)
    \/ \E id \in DOMAIN sched.loops : LoopWake(id)
    \/ \E id \in DOMAIN sched.loops : LoopCancelled(id)

SpecSched == InitSched /\ [][NextSched]_vars

----------------------------------------------------------------------------
(* SpecRace: coroutines of one event loop that use one authenticated client *)
(* at the same time: _make_request_with_retry on an authenticated URL       *)
(* ("request"), execute_transfers of services/fpl_api.py ("transfers") and  *)
(* SessionManager.refresh_session ("refresh"). A step runs a coroutine from *)
(* one suspension to the next; the caller of a coroutine may cancel it      *)
(* while it is suspended. The client holds a token pair.                    *)

Racers == 1..NumRacers
RaceKinds == {"request", "transfers", "refresh"}

\* a coroutine: where it is suspended ("probe": the request of
\* _is_session_valid, "flight": its request or POST, "sleep": a backoff sleep,
\* "closing": inside _authenticate at "await self.authenticated_session
\* .close()"), the requests it has issued, the number of the session its
\* request in flight was issued on (-1: on a closed session), what follows
\* the _authenticate it is in, whether its session was closed while its
\* request was in flight, whether cancel() was called on it and where
IdleCo == [kind |-> "", pc |-> "idle", attempt |-> 0, on |-> 0, after |-> "",
           underneath |-> FALSE, cancel |-> "no", at |-> ""]

Suspended == {"probe", "flight", "sleep", "closing"}

\* the exception hierarchy of Python 3.7, where CancelledError is an Exception
IsExceptionLegacy(exc) == TRUE

\* isinstance(exc, Exception): asyncio.CancelledError derives from
\* BaseException, whatever else the code raises derives from Exception
IsException(exc) == exc # "CancelledError"

\* the answers to a request in flight
RaceOutcomes == {Http(200), Http(401), Http(500), Raised("error")}

InitRace ==
    /\ now = 1
    /\ client = [NewClient(TRUE, FALSE) EXCEPT !.auth = "open", !.last_auth_time = 1]
    /\ req = IdleReq
    /\ exec = IdleExec
    /\ sm = NewSessionManager
    /\ op = NoOp
    /\ tasks = <<>>
    /\ conc = NoConc
    /\ val = NoVal
    /\ sched = NoSched
    /\ race = [co |-> [i \in Racers |-> IdleCo], gen |-> 1, issued |-> 0, cancels |-> 0]
    /\ sweep = NoSweep
    /\ calc = NoCalc

\* the coroutine ends: a value or None returned, or an exception raised
CoDone(r, i) ==
    [r EXCEPT !.co[i] = [IdleCo EXCEPT !.kind = r.co[i].kind, !.pc = "done",
                                       !.underneath = r.co[i].underneath,
                                       !.cancel = r.co[i].cancel]]

\* session_to_use.request(...) / authenticated_session.post(...): the next
\* request of coroutine i, on the session the client holds at that moment
CoIssue(r, i, c) ==
    [r EXCEPT !.co[i].pc = "flight",
              !.co[i].attempt = r.co[i].attempt + 1,
              !.co[i].after = "",
              !.co[i].on = IF c.auth = "open" THEN r.gen ELSE -1,
              !.issued = r.issued + 1]

\* _authenticate lines 166-169 for a client with a token pair: the session is
\* closed, whoever has a request in flight on it
CoBeginAuth(r, i, after) ==
    [r EXCEPT !.co = [j \in Racers |->
        IF j = i
        THEN [r.co[j] EXCEPT !.pc = "closing", !.after = after, !.on = 0]
        ELSE IF r.co[j].pc \in {"probe", "flight"} /\ r.co[j].on = r.gen
                  /\ client.auth = "open"
        THEN [r.co[j] EXCEPT !.underneath = TRUE]
        ELSE r.co[j]]]

\* what a coroutine does after a run of its loop ended in a retried failure:
\* tenacity stops after 5 attempts, the POST loop after 3
CoRetry(r, i) ==
    LET limit == IF r.co[i].kind = "request" THEN MaxAttempts ELSE MaxRetries IN
    IF r.co[i].attempt >= limit THEN CoDone(r, i)
    ELSE [r EXCEPT !.co[i].pc = "sleep", !.co[i].on = 0, !.co[i].after = ""]

\* a caller starts a coroutine: refresh_session calls _authenticate,
\* the others _ensure_authenticated, which probes an open session
RaceStart(i) ==
    /\ race.co[i].pc = "idle"
    /\ \E kind \in RaceKinds :
          LET r == [race EXCEPT !.co[i].kind = kind] IN
          IF kind = "refresh" \/ ~ProbeSent(client)
          THEN /\ race.gen < MaxRaceGen
               /\ race' = CoBeginAuth(r, i, IF kind = "refresh" THEN "done" ELSE "issue")
               /\ client' = [client EXCEPT !.auth = ClosedAuth(client)]
          ELSE /\ race' = [r EXCEPT !.co[i].pc = "probe", !.co[i].on = r.gen]
               /\ client' = client
    /\ UNCHANGED <<now, req, exec, sm, op, tasks, conc, val, sched, sweep, calc>>

\* the probe of _is_session_valid is answered
RaceProbeDone(i) ==
    /\ race.co[i].pc = "probe" /\ race.co[i].cancel # "requested"
    /\ race.issued < MaxRaceIssued
    /\ \E probe \in ProbeOutcomes :
          IF probe = Http(200)
          THEN /\ race' = CoIssue(race, i, client)
               /\ client' = client
          ELSE /\ race.gen < MaxRaceGen
               /\ race' = CoBeginAuth(race, i, "issue")
               /\ client' = [client EXCEPT !.auth = ClosedAuth(client)]
    /\ UNCHANGED <<now, req, exec, sm, op, tasks, conc, val, sched, sweep, calc>>

\* the request or POST in flight is answered (or fails: a request on a
\* closed session raises)
RaceAnswer(i) ==
    /\ race.co[i].pc = "flight" /\ race.co[i].cancel # "requested"
    /\ \E outcome \in RaceOutcomes :
          /\ race.co[i].on = -1 => outcome = Raised("error")
          /\ IF outcome = Http(200)
             THEN /\ race' = CoDone(race, i)
                  /\ client' = client
             ELSE IF outcome = Http(401)
             THEN /\ race.gen < MaxRaceGen
                  /\ race' = CoBeginAuth(race, i, "retry")
                  /\ client' = [client EXCEPT !.auth = ClosedAuth(client)]
             ELSE IF outcome = Raised("error") /\ race.co[i].kind = "request"
             THEN /\ race' = CoDone(race, i)
                  /\ client' = client
             ELSE /\ race' = CoRetry(race, i)
                  /\ client' = client
    /\ UNCHANGED <<now, req, exec, sm, op, tasks, conc, val, sched, sweep, calc>>

\* _authenticate lines 172-187: close() has returned and the session is built
RaceAuthDone(i) ==
    /\ race.co[i].pc = "closing" /\ race.co[i].cancel # "requested"
    /\ race.issued < MaxRaceIssued
    /\ client' = [client EXCEPT !.auth = "open", !.last_auth_time = now]
    /\ LET r == [race EXCEPT !.gen = race.gen + 1]
           c == [client EXCEPT !.auth = "open"]
       IN race' = CASE r.co[i].after = "done"  -> CoDone(r, i)
                    [] r.co[i].after = "issue" -> CoIssue(r, i, c)
                    [] r.co[i].kind = "request" -> CoRetry(r, i)
                    [] OTHER -> IF r.co[i].attempt < MaxRetries
                                THEN CoIssue(r, i, c) ELSE CoDone(r, i)
    /\ UNCHANGED <<now, req, exec, sm, op, tasks, conc, val, sched, sweep, calc>>

\* the backoff sleep ends and the next attempt is made
RaceWake(i) ==
    /\ race.co[i].pc = "sleep" /\ race.co[i].cancel # "requested"
    /\ race.issued < MaxRaceIssued
    /\ race' = CoIssue(race, i, client)
    /\ UNCHANGED <<now, client, req, exec, sm, op, tasks, conc, val, sched, sweep, calc>>

\* the caller cancels the coroutine (task.cancel(), or the timeout of
\* asyncio.wait_for) while it is suspended
RaceCancel(i) ==
    /\ race.co[i].pc \in Suspended /\ race.co[i].cancel = "no"
    /\ race.cancels < MaxRaceCancels
    /\ race' = [race EXCEPT !.co[i].cancel = "requested", !.co[i].at = race.co[i].pc,
                            !.cancels = race.cancels + 1]
    /\ UNCHANGED <<now, client, req, exec, sm, op, tasks, conc, val, sched, sweep, calc>>

\* the event loop resumes the cancelled coroutine: CancelledError is raised
\* at its await. The handlers around the awaits are "except Exception"
\* (fpl_api.py 137, 158, 234, 489; session_manager.py 166); tenacity retries
\* only RetryableAPIError, TimeoutError and ClientConnectorError. A handler
\* that catches the error goes on as after any other exception.
RaceCancelled(i) ==
    /\ race.co[i].cancel = "requested"
    /\ LET r == [race EXCEPT !.co[i].cancel = "delivered"]
           caught == IsException("CancelledError")
           gone == [r EXCEPT !.co[i].pc = "cancelled", !.co[i].on = 0,
                             !.co[i].after = ""]
       IN race' = IF ~caught THEN gone
                  ELSE CASE r.co[i].kind = "transfers" /\ r.co[i].pc \in {"flight", "sleep"}
                              -> CoRetry(r, i)
                         [] r.co[i].kind = "request" /\ r.co[i].pc = "sleep" -> gone
                         [] OTHER -> CoDone(r, i)
    /\ UNCHANGED <<now, client, req, exec, sm, op, tasks, conc, val, sched, sweep, calc>>

NextRace ==
    \/ \E i \in Racers : RaceStart(i)
    \/ \E i \in Racers : RaceProbeDone(i)
    \/ \E i \in Racers : RaceAnswer(i)
    \/ \E i \in Racers : RaceAuthDone(i)
    \/ \E i \in Racers : RaceWake(i)
    \/ \E i \in Racers : RaceCancel(i)
    \/ \E i \in Racers : RaceCancelled(i)

SpecRace == InitRace /\ [][NextRace]_vars

----------------------------------------------------------------------------
(* SpecSweep: a task running _scheduler_loop over the dictionary            *)
(* fpl_api_instances of several accounts, which its owner may extend while  *)
(* the loop is suspended in refresh_session                                 *)

\* an account of fpl_api_instances: whether is_session_expiring_soon holds
\* for it, whether it did when the loop woke, and whether refresh_session
\* has been called for it since
Account(expiring) == [expiring |-> expiring, due |-> expiring, called |-> FALSE]

\* the dictionaries the scheduler is started with, in insertion order
AccountLists ==
    UNION {[1..n -> {Account(e) : e \in BOOLEAN}] : n \in 1..(MaxAccounts - 1)}

\* what refresh_session may end in: the session renewed, _authenticate
\* returning False, or an exception caught by its own handler (lines 166-170)
RefreshOutcomes == {"renewed", "failed", "exception"}

\* next() on the iterator of fpl_api_instances.items() raises RuntimeError
\* (dictionary changed size during iteration) when the size differs from
\* the size at the start of the for statement
DictChanged(size, size0) == size # size0

InitSweep ==
    /\ now = 1
    /\ client = NewClient(TRUE, FALSE)
    /\ req = IdleReq
    /\ exec = IdleExec
    /\ sm = NewSessionManager
    /\ op = NoOp
    /\ tasks = <<>>
    /\ conc = NoConc
    /\ val = NoVal
    /\ sched = NoSched
    /\ race = NoRace
    /\ calc = NoCalc
    /\ \E accounts \in AccountLists :
          sweep = [pc |-> "iter", accounts |-> accounts, pos |-> 0,
                   size0 |-> Len(accounts), raised |-> FALSE, passes |-> 1]

\* line 175: the for statement takes the next item, and lines 177-179 check
\* it and call refresh_session; a RuntimeError is caught at line 185, and the
\* loop sleeps
SweepNext ==
    /\ sweep.pc = "iter"
    /\ sweep' =
         IF DictChanged(Len(sweep.accounts), sweep.size0)
         THEN [sweep EXCEPT !.pc = "sleep", !.raised = TRUE]
         ELSE IF sweep.pos = sweep.size0
         THEN [sweep EXCEPT !.pc = "sleep"]
         ELSE IF sweep.accounts[sweep.pos + 1].expiring
         THEN [sweep EXCEPT !.pc = "refresh", !.pos = sweep.pos + 1,
                            !.accounts[sweep.pos + 1].called = TRUE]
         ELSE [sweep EXCEPT !.pos = sweep.pos + 1]
    /\ UNCHANGED <<now, client, req, exec, sm, op, tasks, conc, val, sched, race, calc>>

\* refresh_session returns; it raises nothing
SweepRefreshDone ==
    /\ sweep.pc = "refresh"
    /\ \E outcome \in RefreshOutcomes :
          sweep' = [sweep EXCEPT !.pc = "iter",
                       !.accounts[sweep.pos].expiring = (outcome # "renewed")]
    /\ UNCHANGED <<now, client, req, exec, sm, op, tasks, conc, val, sched, race, calc>>

\* the owner of the dictionary adds an account while the loop is suspended
SweepAdd ==
    /\ sweep.pc \in {"refresh", "sleep"}
    /\ Len(sweep.accounts) < MaxAccounts
    /\ \E e \in BOOLEAN :
          sweep' = [sweep EXCEPT !.accounts = Append(sweep.accounts,
                                                     [Account(e) EXCEPT !.due = FALSE])]
    /\ UNCHANGED <<now, client, req, exec, sm, op, tasks, conc, val, sched, race, calc>>

\* asyncio.sleep(refresh_interval) returns and the next pass begins; sessions
\* may have come into the refresh window meanwhile
SweepWake ==
    /\ sweep.pc = "sleep"
    /\ sweep.passes < MaxPasses
    /\ \E late \in SUBSET DOMAIN sweep.accounts :
          sweep' = [sweep EXCEPT
                       !.pc = "iter", !.pos = 0, !.raised = FALSE,
                       !.size0 = Len(sweep.accounts),
                       !.passes = sweep.passes + 1,
                       !.accounts = [k \in DOMAIN sweep.accounts |->
                           Account(sweep.accounts[k].expiring \/ k \in late)]]
    /\ UNCHANGED <<now, client, req, exec, sm, op, tasks, conc, val, sched, race, calc>>

NextSweep == SweepNext \/ SweepRefreshDone \/ SweepAdd \/ SweepWake

SpecSweep == InitSweep /\ [][NextSweep]_vars

----------------------------------------------------------------------------
(* SpecVal: validate_transfers called once on a squad, a batch, a budget,  *)
(* chips and the override flag                                             *)

\* the squad of tests/test_enhanced_features.py: ids and element types as
\* there, three players to a club
SquadIds == <<1, 3, 4, 5, 6, 7, 8, 9, 10, 11, 12, 13, 14, 15, 16>>
SquadTypes == <<1, 2, 2, 2, 2, 3, 3, 3, 3, 3, 4, 4, 4, 1, 2>>
TestSquad ==
    [i \in 1..SquadSize |->
        Player(SquadIds[i], SquadTypes[i], ((i - 1) \div MaxPlayersPerClub) + 1, Absent)]

Squads == {TestSquad, SubSeq(TestSquad, 1, SquadSize - 1)}

\* the squad's i-th player as the outgoing side of a transfer, sold for 50
Outgoing(i) == [TestSquad[i] EXCEPT !.now_cost = 50]

\* the transfers a batch is made of
Candidates ==
    { \* a goalkeeper for a player of the same club without an element type
      \* (75% chance of playing)
      Transfer(Outgoing(1), [Player(20, 0, 1, 100) EXCEPT !.chance = 75]),
      \* a defender of club 1 for a defender of club 2, which then has four
      \* (74% chance of playing)
      Transfer(Outgoing(2), [Player(21, 2, 2, 200) EXCEPT !.chance = 74]),
      \* the other goalkeeper for an injured player with a 24% chance
      Transfer(Outgoing(14), [Player(22, 0, 5, 50) EXCEPT !.status = "i", !.chance = 24]),
      \* no outgoing player, for a suspended one
      Transfer(NoPlayer, [Player(23, 0, 0, 0) EXCEPT !.status = "s"]),
      \* element ids in place of the dictionaries
      Transfer(ElementId(5), ElementId(24)),
      \* a midfielder for one whose chance of playing is text
      Transfer(Outgoing(6), [Player(25, 3, 2, 50) EXCEPT !.chance = TextChance]),
      \* a midfielder with a selling price only for a forward with a 25%
      \* chance
      Transfer([TestSquad[7] EXCEPT !.selling_price = 60],
               [Player(26, 4, 3, 60) EXCEPT !.chance = 25]) }

Batches == UNION {[1..n -> Candidates] : n \in 0..MaxBatch}

\* budgets in tenths of a million
Budgets == {0, 50, 1000}

InitVal ==
    /\ now = 1
    /\ client = NewClient(TRUE, FALSE)
    /\ req = IdleReq
    /\ exec = IdleExec
    /\ sm = NewSessionManager
    /\ op = NoOp
    /\ tasks = <<>>
    /\ conc = NoConc
    /\ sched = NoSched
    /\ race = NoRace
    /\ sweep = NoSweep
    /\ calc = NoCalc
    /\ \E transfers \in Batches, given \in BOOLEAN, squad \in Squads,
          budget \in Budgets, chips \in ChipInputs, override \in BOOLEAN :
          /\ ~given => transfers = <<>>
          /\ val = [NoVal EXCEPT !.pc = "call", !.given = given,
                                 !.transfers = transfers, !.squad = squad,
                                 !.budget = budget, !.chips = chips,
                                 !.override = override]

\* the call returns its verdict
Validate ==
    /\ val.pc = "call"
    /\ val' = [val EXCEPT !.pc = "done",
                  !.verdict = ValidateTransfers(val.given, val.transfers, val.squad,
                                                val.budget, val.chips, val.override),
                  !.squad = CurrentSquadAfter(val.given, val.transfers, val.squad)]
    /\ UNCHANGED <<now, client, req, exec, sm, op, tasks, conc, sched, race, sweep, calc>>

\* the caller calls again with the objects it passed the first time
ValidateAgain ==
    /\ val.pc = "done"
    /\ val' = [val EXCEPT !.pc = "twice",
                  !.again = ValidateTransfers(val.given, val.transfers, val.squad,
                                              val.budget, val.chips, val.override),
                  !.squad = CurrentSquadAfter(val.given, val.transfers, val.squad)]
    /\ UNCHANGED <<now, client, req, exec, sm, op, tasks, conc, sched, race, sweep, calc>>

NextVal == Validate \/ ValidateAgain

SpecVal == InitVal /\ [][NextVal]_vars

----------------------------------------------------------------------------
(* SpecCalc: TransferEngine.identify_transfer_targets and                  *)
(* LineupSelector.select_lineup, each called once on its inputs            *)

\* sorted(), which is stable: x goes behind the elements whose key is not
\* greater
RECURSIVE InsertByKey(_, _)
InsertByKey(x, s) ==
    IF s = <<>> THEN <<x>>
    ELSE IF s[1].key <= x.key
    THEN <<s[1]>> \o InsertByKey(x, Tail(s))
    ELSE <<x>> \o s

RECURSIVE SortByKey(_)
SortByKey(s) ==
    IF s = <<>> THEN <<>>
    ELSE InsertByKey(s[Len(s)], SortByKey(SubSeq(s, 1, Len(s) - 1)))

\* a player of the bootstrap data with the value score the engine computes
\* for it; value stands for expected_points / (now_cost / 10)
CalcPlayer(id, element_type, now_cost, value, status) ==
    [id |-> id, element_type |-> element_type, now_cost |-> now_cost,
     value |-> value, status |-> status]

\* is_player_available
IsPlayerAvailable(p) == p.status = "a"

\* calculate_player_value
CalculatePlayerValue(p) == IF p.now_cost <= 0 THEN 0 ELSE p.value

\* lines 96-119: player_values, the available players by descending value
PlayerValues(available_players) ==
    LET entry(i) == [key |-> 0 - CalculatePlayerValue(available_players[i]),
                     player |-> available_players[i],
                     value |-> CalculatePlayerValue(available_players[i])]
    IN SortByKey(SelectSeq([i \in DOMAIN available_players |-> entry(i)],
                           LAMBDA e : IsPlayerAvailable(e.player)))

\* lines 121-139: squad_analysis, the squad by ascending value
SquadAnalysis(current_squad) ==
    SortByKey([i \in DOMAIN current_squad |->
                  [key |-> CalculatePlayerValue(current_squad[i]),
                   player |-> current_squad[i],
                   value |-> CalculatePlayerValue(current_squad[i])]])

\* lines 144-172: the transfer suggested for one of the weakest players, if
\* any: <<>> or one transfer
SuggestFor(weakest, player_values, budget) ==
    LET available_budget == budget + weakest.player.now_cost - BudgetBuffer
        Better(pv) == /\ pv.player.element_type = weakest.player.element_type
                      /\ pv.player.now_cost <= available_budget
                      /\ pv.value > weakest.value
                      /\ IsPlayerAvailable(pv.player)
        better_players == SortByKey(
            LET found == SelectSeq(player_values, Better)
            IN [i \in DOMAIN found |->
                   [found[i] EXCEPT !.key = 0 - (found[i].value - weakest.value)]])
    IN IF better_players = <<>> THEN <<>>
       ELSE <<[out |-> weakest.player, in |-> better_players[1].player,
               gain |-> better_players[1].value - weakest.value,
               key |-> 0 - (better_players[1].value - weakest.value)]>>

\* lines 142-143: the loop over the weakest players from i on
RECURSIVE SuggestFrom(_, _, _, _)
SuggestFrom(i, squad_analysis, player_values, budget) ==
    IF i > MaxTargets \/ i > Len(squad_analysis) THEN <<>>
    ELSE SuggestFor(squad_analysis[i], player_values, budget)
             \o SuggestFrom(i + 1, squad_analysis, player_values, budget)

\* identify_transfer_targets: the suggestions by descending gain, two at most
IdentifyTransferTargets(current_squad, available_players, budget) ==
    LET transfers == SortByKey(SuggestFrom(1, SquadAnalysis(current_squad),
                                           PlayerValues(available_players), budget))
    IN SubSeq(transfers, 1,
              IF Len(transfers) < MaxTargets THEN Len(transfers) ELSE MaxTargets)

\* a LineupSelector whose positions allow a second goalkeeper
LineupPositionsTwoKeepers ==
    [et \in 1..4 |->
        CASE et = 1 -> [min |-> 1, max |-> 2]
          [] et = 2 -> [min |-> 3, max |-> 5]
          [] et = 3 -> [min |-> 3, max |-> 5]
          [] OTHER  -> [min |-> 1, max |-> 3]]

\* LineupSelector.positions
LineupPositions ==
    [et \in 1..4 |->
        CASE et = 1 -> [min |-> 1, max |-> 1]
          [] et = 2 -> [min |-> 3, max |-> 5]
          [] et = 3 -> [min |-> 3, max |-> 5]
          [] OTHER  -> [min |-> 1, max |-> 3]]

\* lines 64-69: the first pass from player i on fills the minima
RECURSIVE FirstPass(_, _, _)
FirstPass(sorted_players, i, lineup) ==
    IF i > Len(sorted_players) THEN lineup
    ELSE LET player == sorted_players[i]
             position == player.element_type
         IN FirstPass(sorted_players, i + 1,
                IF PositionCount(lineup, position) < LineupPositions[position].min
                THEN Append(lineup, player) ELSE lineup)

\* lines 71-79: the second pass from player i on fills the remaining places
RECURSIVE SecondPass(_, _, _)
SecondPass(sorted_players, i, lineup) ==
    IF i > Len(sorted_players) \/ Len(lineup) >= LineupSize THEN lineup
    ELSE LET player == sorted_players[i]
             position == player.element_type
         IN SecondPass(sorted_players, i + 1,
                IF /\ \A k \in DOMAIN lineup : lineup[k] # player
                   /\ PositionCount(lineup, position) < LineupPositions[position].max
                THEN Append(lineup, player) ELSE lineup)

\* select_lineup; points[i] is what sort_key returns for squad[i]
SelectLineupOf(squad, points) ==
    LET keyed == SortByKey([i \in DOMAIN squad |->
                               [key |-> 0 - points[i], player |-> squad[i]]])
        sorted_players == [i \in DOMAIN keyed |-> keyed[i].player]
    IN SecondPass(sorted_players, 1, FirstPass(sorted_players, 1, <<>>))

\* the squads handed to identify_transfer_targets: defenders and midfielders
\* bought for 5.0, with any value score
CalcSquads ==
    UNION {[1..n -> {2, 3} \X (0..(MaxValue - 1))] : n \in 0..MaxCalcSquad}

\* the pools: defenders and midfielders for 4.5 or 6.5, one of them injured
CalcPools ==
    UNION {[1..n -> {2, 3} \X {45, 65} \X (1..MaxValue) \X {"a", "i"}] :
              n \in 0..MaxPool}

CalcBudgets == {0, 20, 100}

\* the squads handed to select_lineup: the 2-5-5-3 squad in two orders
LineupSquads ==
    {TestSquad, [i \in 1..SquadSize |-> TestSquad[SquadSize + 1 - i]]}

InitCalc ==
    /\ now = 1
    /\ client = NewClient(TRUE, FALSE)
    /\ req = IdleReq
    /\ exec = IdleExec
    /\ sm = NewSessionManager
    /\ op = NoOp
    /\ tasks = <<>>
    /\ conc = NoConc
    /\ val = NoVal
    /\ sched = NoSched
    /\ race = NoRace
    /\ sweep = NoSweep
    /\ \/ \E sq \in CalcSquads, pl \in CalcPools, budget \in CalcBudgets :
             calc = [pc |-> "targets",
                     squad |-> [i \in DOMAIN sq |->
                                   CalcPlayer(i, sq[i][1], 50, sq[i][2], "a")],
                     pool |-> [i \in DOMAIN pl |->
                                  CalcPlayer(10 + i, pl[i][1], pl[i][2], pl[i][3], pl[i][4])],
                     budget |-> budget, points |-> <<>>, result |-> <<>>]
       \/ \E squad \in LineupSquads, points \in [1..SquadSize -> 0..MaxPoints] :
             calc = [pc |-> "lineup", squad |-> squad, pool |-> <<>>,
                     budget |-> 0, points |-> points, result |-> <<>>]

\* the caller runs identify_transfer_targets
IdentifyTargets ==
    /\ calc.pc = "targets"
    /\ calc' = [calc EXCEPT !.pc = "identified",
                   !.result = IdentifyTransferTargets(calc.squad, calc.pool, calc.budget)]
    /\ UNCHANGED <<now, client, req, exec, sm, op, tasks, conc, val, sched, race, sweep>>

\* the caller runs select_lineup
SelectLineup ==
    /\ calc.pc = "lineup"
    /\ calc' = [calc EXCEPT !.pc = "selected",
                   !.result = SelectLineupOf(calc.squad, calc.points)]
    /\ UNCHANGED <<now, client, req, exec, sm, op, tasks, conc, val, sched, race, sweep>>

NextCalc == IdentifyTargets \/ SelectLineup

SpecCalc == InitCalc /\ [][NextCalc]_vars

----------------------------------------------------------------------------
(* Claims about execute_transfers (Spec) *)

\* C1: every POST to the transfer endpoint is preceded, within the same
\* execute_transfers call, by a run of the Transfer Validator whose verdict
\* is not blocking (not status=fail with overrideRequired=true).
C1_PostOnlyAfterValidation ==
    exec.posts > 0 =>
        /\ exec.validated
        /\ ~(exec.verdict.status = "fail" /\ exec.verdict.override_required)

\* the call ended on a blocking verdict
Blocked ==
    /\ exec.pc = "returned"
    /\ exec.validated
    /\ exec.verdict.status = "fail"
    /\ exec.verdict.override_required

\* C2 as stated: on a blocking verdict execute_transfers returns failure with
\* the validator's messages and no network call of any kind was attempted
\* during the call.
C2_BlockedNoNetworkAtAll ==
    Blocked =>
        /\ exec.result = "False"
        /\ exec.messages = exec.verdict.messages
        /\ exec.gets + exec.probes + exec.logins + exec.posts = 0

\* C2 as amended: on a blocking verdict execute_transfers returns
\* (False, the validator's messages) without calling _ensure_authenticated,
\* probing the session or POSTing; the only network calls of the call are
\* those of the get_bootstrap_data request made before validating: at most 5
\* GET attempts (none on a cache hit) and a login only when such a GET was
\* answered 401.
C2_BlockedNoPost ==
    Blocked =>
        /\ exec.result = "False" /\ exec.pair
        /\ exec.messages = exec.verdict.messages
        /\ exec.posts = 0 /\ exec.ensures = 0 /\ exec.probes = 0
        /\ exec.gets <= MaxAttempts
        /\ exec.auths <= exec.gets /\ exec.logins <= exec.auths
        /\ exec.boot_hit => exec.gets = 0 /\ exec.logins = 0

\* a blocked call that fetched the bootstrap data over the network first
C2_Witness ==
    Blocked /\ exec.gets > 0 /\ ~exec.boot_hit

----------------------------------------------------------------------------
(* Claims about the request layer (Spec) *)

\* the outcomes the claims call retryable: 429/500/502/503, timeout,
\* connection error
Transient == RetryableStatuses \cup RetryableFailures

Returned == req.pc = "returned"

\* C3: once a cacheable GET has been answered 200, a later request for the
\* same URL made while now - storedAt < ttl returns the stored body with no
\* network call; one made once now - storedAt >= ttl goes to the network
\* again, the expired entry is not returned and is removed by that lookup.
C3_CacheWithinTTL ==
    (req.attempt >= 1 /\ req.method = "GET" /\ req.cacheable /\ req.entry0.present) =>
        IF now - req.entry0.ts < CacheTTL
        THEN /\ Returned
             /\ req.inner = "value" /\ req.body = req.entry0.body
             /\ req.attempt = 1
             /\ req.net = 0 /\ req.probes = 0 /\ req.logins = 0
             /\ client.cache[req.url] = req.entry0
        ELSE /\ req.last # Note("cache")
             /\ req.net >= 1
             /\ client.cache[req.url].present => client.cache[req.url].ts = now
             /\ (Returned /\ req.inner = "value") =>
                   /\ client.cache[req.url].present
                   /\ req.body = client.cache[req.url].body

\* a second request, made 200 seconds after the answer was stored, served
\* from the cache
C3_Witness ==
    /\ Returned /\ req.cacheable /\ req.entry0.present
    /\ now - req.entry0.ts = 2 * TickStep
    /\ req.net = 0 /\ req.body = req.entry0.body

\* C4: if the first k-1 outcomes are retryable and the k-th (k <= 5) is a
\* 200, the call returns the 200 body after exactly k network attempts: a
\* call never ends on a retryable outcome before its 5th attempt, and one
\* that ends on a 200 made one request per attempt.
C4_RetryUntilSuccess ==
    /\ (req.last \in Transient /\ req.attempt < MaxAttempts) =>
           req.pc \in {"backoff", "attempt"}
    /\ (Returned /\ req.last = Http(200) /\ req.reauth = 0) =>
           /\ req.inner = "value"
           /\ req.body.url = req.url /\ req.body.ver \in Versions
           /\ req.attempt <= MaxAttempts
           /\ req.net = req.attempt
           /\ req.sleeps = req.attempt - 1

\* four retryable outcomes, then a 200 on the fifth attempt
C4_Witness ==
    /\ Returned /\ req.last = Http(200) /\ req.reauth = 0
    /\ req.net = MaxAttempts /\ req.inner = "value"

\* C5: with no success among the first 5 retryable outcomes the call ends in
\* a terminal error after exactly 5 network attempts; there is no 6th.
C5_StopAfterFive ==
    /\ req.attempt <= MaxAttempts /\ req.net <= MaxAttempts
    /\ req.pc = "backoff" => req.attempt < MaxAttempts
    /\ (Returned /\ req.last \in Transient) =>
           /\ req.inner = "raise"
           /\ req.attempt = MaxAttempts /\ req.net = MaxAttempts
           /\ req.sleeps = MaxAttempts - 1

\* five retryable outcomes without a 401 among them
C5_Witness ==
    /\ Returned /\ req.last \in Transient /\ req.reauth = 0
    /\ req.net = MaxAttempts /\ req.inner = "raise"

\* 4xx other than 401 and 429
Terminal4xx == {Http(400), Http(403), Http(404)}

\* C6: a 4xx other than 401 and 429 ends the call with a terminal error on
\* that attempt: no retry, no backoff sleep and no re-authentication follows.
C6_Terminal4xx ==
    req.last \in Terminal4xx =>
        /\ Returned
        /\ req.inner = "none" /\ req.outer = "none"
        /\ req.net = req.attempt
        /\ req.sleeps = req.attempt - 1
        /\ req.reauth <= req.attempt - 1

\* a call answered 403 on its first attempt
C6_Witness ==
    /\ Returned /\ req.last = Http(403)
    /\ req.attempt = 1 /\ req.net = 1 /\ req.sleeps = 0 /\ req.reauth = 0

\* C7: within one request call HTTP 401 triggers re-authentication at most
\* once.
C7_ReauthAtMostOnce ==
    req.reauth <= 1

\* C8 as stated: _make_request_with_retry never propagates an exception for
\* a sequence of HTTP statuses; it returns a result value.
C8_NeverRaises ==
    Returned => req.inner \in {"value", "none"}

\* C8 as amended: the wrappers (get_bootstrap_data, get_player_data,
\* get_team_data) always return a value; _make_request_with_retry itself
\* returns a value unless its fifth attempt ends in a retried outcome, which
\* tenacity re-raises and the wrapper turns into None.
C8_WrapperNeverRaises ==
    Returned =>
        /\ req.outer \in {"value", "none"}
        /\ req.inner # "raise" => req.outer = req.inner
        /\ req.inner = "raise" =>
              /\ req.outer = "none"
              /\ req.attempt = MaxAttempts
              /\ req.last \in Transient \cup {Http(401)}
        /\ req.inner = "raise" =>
              /\ req.outer = "none"
              /\ req.attempt = MaxAttempts
              /\ req.last \in Transient \cup {Http(401)}

\* five 503 answers in a row: the exception reaches the wrapper
C8_Witness ==
    /\ Returned /\ req.last = Http(503) /\ req.net = MaxAttempts
    /\ req.inner = "raise" /\ req.outer = "none"

----------------------------------------------------------------------------
(* Claims about the session (SpecConc, SpecAuth) *)

\* C9: when N callers invoke _ensure_authenticated at the same time,
\* _authenticate runs once for the session state they found and the other
\* callers share its result: no two callers of one round run _authenticate
\* on the same session state.
C9_SingleFlight ==
    \A i, j \in DOMAIN tasks :
        (i # j /\ tasks[i].basis # -1 /\ tasks[j].basis # -1) =>
            tasks[i].basis # tasks[j].basis

\* C10: with consecutiveFailures = maxFailures (3), _ensure_authenticated
\* returns false at once: no probe, no login, no session construction.
C10_DisabledFailsFast ==
    (op.name = "_ensure_authenticated" /\ op.failures0 = MaxRefreshAttempts) =>
        /\ ~op.ok
        /\ op.probes = 0
        /\ op.logins = 0

\* the session manager's operations that run refresh_session
RefreshOps == {"refresh_session", "_scheduler_loop"}

\* C11: once consecutiveFailures >= maxFailures the account is disabled:
\* refresh_session, called directly or by the scheduler loop, returns without
\* attempting authentication, so the counter never exceeds maxFailures and
\* the account does not come back to Authenticated.
C11_DisabledShortCircuits ==
    /\ sm.failures <= MaxRefreshAttempts
    /\ (op.name \in RefreshOps /\ op.failures0 >= MaxRefreshAttempts) =>
          ~op.ok /\ op.auths = 0 /\ op.logins = 0

\* C12: consecutiveFailures equals the number of failed _authenticate
\* attempts since the last successful one.
C12_CounterCountsFailures ==
    sm.failures = op.streak

\* C13: isExpiringSoon is true exactly when now > expiresAt - renewalWindow,
\* i.e. now - lastAuthTime > sessionLifetime - renewalWindow, and true when
\* the account was never authenticated; it is true 3301 seconds after the
\* authentication and false at the authentication; the client's and the
\* session manager's tests agree on a session both have recorded.
C13_ExpiringSoon ==
    /\ (op.name = "_is_session_expired" /\ op.at = now) =>
          /\ client.last_auth_time = -1 => op.ok
          /\ client.last_auth_time # -1 =>
                /\ op.ok <=> now > (client.last_auth_time + SessionExpiresIn) - RefreshWindow
                /\ now - client.last_auth_time = SessionExpiresIn - RefreshWindow + 1 => op.ok
                /\ now = client.last_auth_time => ~op.ok
    /\ (op.name = "is_session_expiring_soon" /\ op.at = now) =>
          /\ sm.expires_at = -1 => op.ok
          /\ sm.expires_at # -1 =>
                /\ op.ok <=> now - (sm.expires_at - SessionExpiresIn) > SessionExpiresIn - MinSessionTime
                /\ sm.expires_at = client.last_auth_time + SessionExpiresIn =>
                      op.ok = IsSessionExpired(client, now)

\* _is_session_expired asked 3301 seconds after the authentication
C13_Witness ==
    /\ op.name = "_is_session_expired" /\ op.at = now /\ op.ok
    /\ client.last_auth_time # -1
    /\ now - client.last_auth_time = SessionExpiresIn - RefreshWindow + 1

\* C14: _ensure_authenticated calls _authenticate if and only if there is no
\* authenticated session, or the session is expiring soon, or the validity
\* probe does not return 200; otherwise it returns true and leaves the
\* session as it is.
C14_AuthenticateIff ==
    [][(op'.name = "_ensure_authenticated" /\ now' = now) =>
          /\ op'.auths = 1 <=>
                \/ client.auth = "none"
                \/ IsSessionExpired(client, now)
                \/ op'.probe # Http(200)
          /\ op'.auths = 0 =>
                op'.ok /\ client' = client /\ op'.probes = 1 /\ op'.logins = 0
          /\ op'.auths \in {0, 1}]_vars

\* a call that found a session, not expiring soon, whose probe returned 200
C14_Witness ==
    /\ op.name = "_ensure_authenticated" /\ op.at = now
    /\ op.auths = 0 /\ op.ok /\ op.probe = Http(200)
    /\ client.auth = "open" /\ ~IsSessionExpired(client, now)

----------------------------------------------------------------------------
(* Claims about the transfer validator (SpecVal) *)

\* validate_transfers has returned its verdict on a batch
Validated == val.pc = "done" /\ val.given

HasCode(v, code) == \E i \in DOMAIN v.messages : v.messages[i].code = code

HasMsg(v, code, level) ==
    \E i \in DOMAIN v.messages : v.messages[i] = Msg(code, level)

\* the simulated squad after the batch
PostSquad == FinalSquad(val.transfers, 1, val.squad)

\* C15: the verdict contains INSUFFICIENT_BUDGET exactly when the prices of
\* the incoming players minus the prices of the outgoing ones exceed the
\* budget (budget + sold - bought < 0), and then status = fail; a price is
\* the player's now_cost, for lack of it the selling_price, else 0.
C15_BudgetCheck ==
    Validated =>
        LET bought == TotalCost(val.transfers, 1)
            sold == TotalSold(val.transfers, 1)
        IN /\ HasCode(val.verdict, "INSUFFICIENT_BUDGET") <=> bought - sold > val.budget
           /\ HasCode(val.verdict, "INSUFFICIENT_BUDGET") =>
                 /\ val.verdict.status = "fail"
                 /\ HasMsg(val.verdict, "INSUFFICIENT_BUDGET", "fail")
           /\ (val.budget = 1000 /\ sold = 50 /\ bought = 200) =>
                 ~HasCode(val.verdict, "INSUFFICIENT_BUDGET")
           /\ (val.budget = 50 /\ sold = 50 /\ bought = 200) =>
                 HasCode(val.verdict, "INSUFFICIENT_BUDGET")

\* one transfer, 50 out and 200 in, on a budget of 50
C15_Witness ==
    /\ Validated /\ Len(val.transfers) = 1 /\ val.budget = 50
    /\ TotalSold(val.transfers, 1) = 50 /\ TotalCost(val.transfers, 1) = 200
    /\ HasMsg(val.verdict, "INSUFFICIENT_BUDGET", "fail")

\* some club has more than 3 players in the post-transfer squad
OverClubLimit ==
    \E club \in Clubs(PostSquad) : ClubCount(PostSquad, club) > MaxPlayersPerClub

\* C16: if a club appears more than 3 times in the simulated post-transfer
\* squad, the verdict contains CLUB_LIMIT_EXCEEDED and status = fail.
C16_ClubLimit ==
    (Validated /\ OverClubLimit) =>
        /\ HasMsg(val.verdict, "CLUB_LIMIT_EXCEEDED", "fail")
        /\ val.verdict.status = "fail"

\* a 15-player squad with exactly four players of one club
C16_Witness ==
    /\ Validated /\ Len(PostSquad) = SquadSize
    /\ \E club \in Clubs(PostSquad) : ClubCount(PostSquad, club) = MaxPlayersPerClub + 1
    /\ HasMsg(val.verdict, "CLUB_LIMIT_EXCEEDED", "fail")

\* C17: if the simulated post-transfer squad does not have exactly 15
\* players, the verdict contains INVALID_SQUAD_SIZE and status = fail; a
\* verdict whose status is not fail has a 15-player post-transfer squad.
C17_SquadSize ==
    Validated =>
        /\ Len(PostSquad) # SquadSize =>
              /\ HasMsg(val.verdict, "INVALID_SQUAD_SIZE", "fail")
              /\ val.verdict.status = "fail"
        /\ val.verdict.status # "fail" => Len(PostSquad) = SquadSize
        /\ Len(PostSquad) = SquadSize => ~HasCode(val.verdict, "INVALID_SQUAD_SIZE")

\* a batch that leaves 16 players in the squad
C17_Witness ==
    /\ Validated /\ Len(PostSquad) = SquadSize + 1
    /\ HasMsg(val.verdict, "INVALID_SQUAD_SIZE", "fail")

\* C18: in every verdict, status = fail if and only if some message has
\* level fail or error.
C18_FailIffFailOrError ==
    val.pc = "done" =>
        (val.verdict.status = "fail" <=>
            \E i \in DOMAIN val.verdict.messages :
                val.verdict.messages[i].level \in {"fail", "error"})

\* C19: a fail verdict with override has overrideRequired = false and an
\* OVERRIDE_USED warn message; a fail verdict without override has
\* overrideRequired = true and no OVERRIDE_USED; a pass verdict has
\* overrideRequired = false and no OVERRIDE_USED.
C19_OverrideStep ==
    val.pc = "done" =>
        /\ (val.verdict.status = "fail" /\ val.override) =>
              /\ ~val.verdict.override_required
              /\ HasMsg(val.verdict, "OVERRIDE_USED", "warn")
        /\ (val.verdict.status = "fail" /\ ~val.override) =>
              /\ val.verdict.override_required
              /\ ~HasCode(val.verdict, "OVERRIDE_USED")
        /\ val.verdict.status = "pass" =>
              /\ ~val.verdict.override_required
              /\ ~HasCode(val.verdict, "OVERRIDE_USED")
        /\ val.verdict.status \in {"pass", "fail"}

\* C20: with chips None or a dictionary, the verdict contains
\* TRANSFER_LIMIT_EXCEEDED, at warn level, exactly when the batch has more
\* than 2 transfers and neither wildcard nor freehit is active; the status is
\* the one the same call returns with the wildcard active.
C20_TransferLimit ==
    (Validated /\ val.chips # "list") =>
        /\ HasCode(val.verdict, "TRANSFER_LIMIT_EXCEEDED") <=>
              /\ Len(val.transfers) > TransfersPerGW
              /\ val.chips \notin {"wildcard", "freehit"}
        /\ HasCode(val.verdict, "TRANSFER_LIMIT_EXCEEDED") =>
              HasMsg(val.verdict, "TRANSFER_LIMIT_EXCEEDED", "warn")
        /\ val.verdict.status =
              ValidateTransfers(val.given, val.transfers, val.squad, val.budget,
                                "wildcard", val.override).status

\* three transfers without a chip: the warning on a verdict that passes
C20_Witness ==
    /\ Validated /\ Len(val.transfers) = TransfersPerGW + 1 /\ val.chips = "none"
    /\ HasMsg(val.verdict, "TRANSFER_LIMIT_EXCEEDED", "warn")
    /\ val.verdict.status = "pass"

\* the message codes of a verdict, as a set
Codes(v) == {v.messages[i].code : i \in DOMAIN v.messages}

\* the six rotations of the code's order of checks, and its reverse
CheckOrders ==
    {[i \in 1..6 |-> ((i + k - 1) % 6) + 1] : k \in 0..5} \cup {[i \in 1..6 |-> 7 - i]}

----------------------------------------------------------------------------
(* Claims about the renewal scheduler (SpecSched) *)

\* C22: at most one task runs the scheduler loop at any time (a task runs it
\* until it has ended or cancel() has been called on it; a cancelled task
\* executes nothing more of the loop), that task is the one scheduler_task
\* refers to, and no step taken while scheduler_task is set creates a task.
C22_OneLoop ==
    [][/\ Cardinality(Live(sched')) <= 1
       /\ Live(sched') = (IF sched'.task = 0 THEN {} ELSE {sched'.task})
       /\ sched.task # 0 => Len(sched'.loops) = Len(sched.loops)]_vars

\* start_scheduler ignored while the second task runs the loop and the first,
\* cancelled, has not ended yet
C22_Witness ==
    /\ sched.last = "start_ignored"
    /\ Len(sched.loops) = 2
    /\ sched.task = 2
    /\ sched.loops[1].cancel /\ sched.loops[1].pc # "gone"
    /\ Live(sched) = {2}

\* C23: a task that stop_scheduler cancelled never ends inside
\* refresh_session: a renewal in flight is recorded before the loop exits.
C23_RenewalCompletes ==
    \A id \in DOMAIN sched.loops : ~sched.loops[id].aborted

----------------------------------------------------------------------------
(* Claims about _authenticate (SpecAuth, Spec) *)

\* C24: an operation that calls _authenticate on a client holding both a
\* token pair and a username and password succeeds, starts no login flow,
\* leaves an open authenticated session and sets last_auth_time to the
\* current time; refresh_session, which does nothing but call it, sends
\* nothing to the network.
C24_TokenPairFirst ==
    [][(/\ client.has_token /\ client.has_password
        /\ <<client, sm, op>>' # <<client, sm, op>>
        /\ op'.auths = 1)
       => /\ op'.ok
          /\ op'.logins = 0
          /\ client'.auth = "open"
          /\ client'.last_auth_time = now
          /\ op'.name \in RefreshOps => op'.probes = 0]_vars

\* a client with both kinds of credentials renewed by refresh_session, later
\* than its construction
C24_Witness ==
    /\ client.has_token /\ client.has_password
    /\ op.name = "refresh_session" /\ op.auths = 1 /\ op.ok /\ op.logins = 0
    /\ op.at > 1 /\ client.last_auth_time = op.at /\ now = op.at
    /\ client.auth = "open"

\* C25: a client with neither a token pair nor a username and password
\* never holds an open authenticated session, and a request that needs one
\* returns None after a single run of the body in which _authenticate
\* failed: nothing sent, no probe, no login flow, no retry.
C25_NoCredentials ==
    (~client.has_token /\ ~client.has_password) =>
        /\ client.auth # "open"
        /\ (req.pc = "returned" /\ req.authenticated) =>
              /\ req.outer = "none"
              /\ req.last = Note("noauth")
              /\ req.attempt = 1
              /\ req.sleeps = 0
              /\ req.net = 0 /\ req.probes = 0 /\ req.logins = 0

\* an authenticated request returned for a client without credentials
C25_Witness ==
    /\ ~client.has_token /\ ~client.has_password
    /\ req.pc = "returned" /\ req.authenticated
    /\ req.outer = "none" /\ req.attempt = 1

----------------------------------------------------------------------------
(* Claims about the audit records (Spec) *)

\* C26: every run of the body of _make_request_with_retry emits exactly one
\* log_api_call record: a call has emitted as many records as it has made
\* attempts.
C26_OneRecordPerAttempt == req.logs = req.attempt

----------------------------------------------------------------------------
(* Claims about the POST loop of execute_transfers (Spec) *)

\* C27: a call of execute_transfers sends at most 3 POSTs, and every pass of
\* the POST loop either returns a result or moves on to the next of its 3
\* attempts, so the loop ends.
C27_AtMostThreePosts ==
    [][/\ exec'.posts <= MaxRetries
       /\ (exec.pc = "post" /\ exec' # exec) =>
             \/ exec'.pc = "returned" /\ exec'.result \in {"True", "False"}
             \/ /\ exec'.pc = "post"
                /\ exec'.attempt = exec.attempt + 1
                /\ exec'.attempt < MaxRetries]_vars

\* three POSTs, one of them answered 401 and followed by a successful
\* re-authentication, and then a result
C27_Witness ==
    /\ exec.pc = "returned" /\ exec.impl = "fpl_api"
    /\ exec.posts = MaxRetries /\ exec.auths >= 1
    /\ exec.result = "True"

\* C28: a call in which _ensure_authenticated failed has sent no POST and
\* returns a failure whose messages contain AUTH_FAILED.
C28_AuthFailed ==
    (exec.pc = "returned" /\ exec.ensured = "failed") =>
        /\ exec.posts = 0
        /\ exec.result = "False"
        /\ "AUTH_FAILED" \in exec.messages

\* C29: a call of services/fpl_api_service/api.py that fails after at least
\* one POST returns a pair whose messages contain TRANSFER_EXECUTION_FAILED.
C29_ExecutionFailed ==
    (/\ exec.pc = "returned" /\ exec.impl = "fpl_api_service"
     /\ exec.result = "False" /\ exec.posts >= 1) =>
        /\ exec.pair
        /\ "TRANSFER_EXECUTION_FAILED" \in exec.messages

\* C30: a call that returns success has emitted exactly one success record
\* for each transfer; a call that returns failure has emitted no success
\* record and at most one failure record for each transfer.
C30_OneAuditRecord ==
    exec.pc = "returned" =>
        /\ exec.result = "True" => exec.ok_records = 1
        /\ exec.result = "False" => exec.ok_records = 0 /\ exec.fail_records <= 1

----------------------------------------------------------------------------
(* Claims about coroutines that share a client (SpecRace) *)

\* the POST, backoff and re-authentication phase of execute_transfers
InPostPhase(co) ==
    /\ co.kind = "transfers"
    /\ \/ co.pc \in {"flight", "sleep"}
       \/ co.pc = "closing" /\ co.after = "retry"

\* C31: no execute_transfers has a POST in flight while another
\* execute_transfers on the same client is in its POST, backoff or
\* re-authentication phase.
C31_OneTransferAtATime ==
    \A i, j \in Racers :
        (i # j /\ InPostPhase(race.co[i]) /\ InPostPhase(race.co[j])) =>
            ~(race.co[i].pc = "flight" /\ race.co[i].on >= 1)

\* C33: once the CancelledError has been raised in a cancelled request or
\* transfer execution, the coroutine has ended with it: it issues no further
\* attempt and does not go on to sleep or to re-authenticate.
C33_CancelPropagates ==
    \A i \in Racers :
        race.co[i].cancel = "delivered" => race.co[i].pc = "cancelled"

\* an execute_transfers cancelled in its backoff sleep after one POST, with
\* two attempts left
C33_Witness ==
    \E i \in Racers :
        /\ race.co[i].kind = "transfers" /\ race.co[i].pc = "cancelled"
        /\ race.co[i].at = "sleep" /\ race.co[i].attempt = 1

\* C37: no request, probe or POST is in flight on a session when
\* _authenticate closes that session.
C37_NoCloseUnderneath ==
    \A i \in Racers : ~race.co[i].underneath

----------------------------------------------------------------------------
(* More claims about execute_transfers (Spec) *)

\* C32: once a transfer POST has been answered 400, 403 or 404 the call has
\* returned: it is not inside the POST loop waiting to send the batch again.
C32_Terminal4xxNotRetried ==
    (exec.posts >= 1 /\ exec.last \in {Http(400), Http(403), Http(404)}) =>
        exec.pc = "returned"

----------------------------------------------------------------------------
(* Claims about a pass of the scheduler loop (SpecSweep) *)

\* C34: when the loop goes to sleep, refresh_session has been called in this
\* pass for every account that was tracked and expiring soon when the loop
\* woke, and for no account that was not expiring soon.
C34_EveryDueAccount ==
    sweep.pc = "sleep" =>
        \A k \in 1..sweep.size0 :
            sweep.accounts[k].called = sweep.accounts[k].due

----------------------------------------------------------------------------
(* More claims about the transfer validator (SpecVal) *)

\* the messages of a verdict with a code and a level
CountMsgs(v, code, level) ==
    Cardinality({i \in DOMAIN v.messages : v.messages[i] = Msg(code, level)})

\* the incoming players of a batch that are dictionaries
Incoming(transfers) ==
    {i \in DOMAIN transfers : transfers[i].in.kind = "dict"}

\* every chance of playing in the batch is a number or unknown
NumericChances(transfers) ==
    \A i \in Incoming(transfers) : transfers[i].in.chance # TextChance

\* C35: in a batch whose incoming players have a numeric or unknown chance
\* of playing, each one with a chance below 25 adds LOW_CHANCE_OF_PLAYING at
\* fail level and the status is fail, each one with a chance from 25 to 74
\* adds it at warn level, and no other adds it; each one whose status is not
\* "a" adds PLAYER_UNAVAILABLE at warn level, whatever its chance; neither
\* warning changes the status the other checks left.
C35_ChanceThresholds ==
    (Validated /\ NumericChances(val.transfers)) =>
        LET ins == Incoming(val.transfers)
            known(i) == val.transfers[i].in.chance # Absent
            low == {i \in ins : known(i) /\ val.transfers[i].in.chance < 25}
            mid == {i \in ins : /\ known(i)
                                /\ val.transfers[i].in.chance >= 25
                                /\ val.transfers[i].in.chance < 75}
            out == {i \in ins : val.transfers[i].in.status # "a"}
            r0 == [status |-> "pass", messages |-> <<>>, override_required |-> FALSE]
            before == RunChecks(<<1, 2, 3, 4, 5>>, 1, val.transfers, val.squad,
                                val.budget, val.chips, r0)
        IN /\ CountMsgs(val.verdict, "LOW_CHANCE_OF_PLAYING", "fail") = Cardinality(low)
           /\ CountMsgs(val.verdict, "LOW_CHANCE_OF_PLAYING", "warn") = Cardinality(mid)
           /\ CountMsgs(val.verdict, "PLAYER_UNAVAILABLE", "warn") = Cardinality(out)
           /\ \A level \in {"fail", "error"} :
                 CountMsgs(val.verdict, "PLAYER_UNAVAILABLE", level) = 0
           /\ low # {} => val.verdict.status = "fail"
           /\ low = {} => val.verdict.status = before.status

\* a batch with chances of 24, 25 and 74: one fail-level and two warn-level
\* messages, and one warning for the injured player
C35_Witness ==
    /\ Validated
    /\ \E i, j, k \in DOMAIN val.transfers :
          /\ val.transfers[i].in.chance = 24
          /\ val.transfers[j].in.chance = 25
          /\ val.transfers[k].in.chance = 74
    /\ CountMsgs(val.verdict, "LOW_CHANCE_OF_PLAYING", "fail") = 1
    /\ CountMsgs(val.verdict, "LOW_CHANCE_OF_PLAYING", "warn") = 2
    /\ CountMsgs(val.verdict, "PLAYER_UNAVAILABLE", "warn") = 1

\* every member of a squad has one of the four element types
FullyTyped(squad) == \A i \in DOMAIN squad : squad[i].element_type \in 1..4

\* C36: the maxima of POSITION_LIMITS sum to less than the squad size, so a
\* squad of 15 players after the batch whose members all have an element
\* type from 1 to 4 gets status fail with INVALID_POSITION_COUNT at fail
\* level; a verdict of pass has a member without a recognised element type.
C36_FullSquadRejected ==
    /\ PositionLimits[1].max + PositionLimits[2].max
          + PositionLimits[3].max + PositionLimits[4].max < SquadSize
    /\ (Validated /\ Len(PostSquad) = SquadSize /\ FullyTyped(PostSquad)) =>
          /\ val.verdict.status = "fail"
          /\ HasMsg(val.verdict, "INVALID_POSITION_COUNT", "fail")
    /\ (Validated /\ val.verdict.status = "pass") => ~FullyTyped(PostSquad)

\* a midfielder sold for a forward: 2 goalkeepers, 5 defenders, 4 midfielders
\* and 4 forwards, all typed, rejected
C36_Witness ==
    /\ Validated
    /\ Len(val.transfers) = 1
    /\ Len(PostSquad) = SquadSize
    /\ FullyTyped(PostSquad)
    /\ PositionCount(PostSquad, 4) = 4
    /\ val.verdict.status = "fail"
    /\ CountMsgs(val.verdict, "INVALID_POSITION_COUNT", "fail") = 2

----------------------------------------------------------------------------
(* More claims about _authenticate (SpecAuth) *)

\* C38: an operation whose _authenticate call failed leaves last_auth_time
\* (and so the answer of _is_session_expired) as it was and leaves no open
\* authenticated session: none if there was none, the previous one closed
\* otherwise; the next _ensure_authenticated calls _authenticate again,
\* whatever its probe would answer. The same holds of _authenticate on a
\* client in any session state.
C38_FailedAuthLeavesNothing ==
    [][(/\ <<client, sm, op>>' # <<client, sm, op>>
        /\ op'.auths = 1
        /\ ~op'.ok)
       => /\ client'.last_auth_time = client.last_auth_time
          /\ IsSessionExpired(client', now) = IsSessionExpired(client, now)
          /\ client'.auth # "open"
          /\ client'.auth = (IF client.auth = "none" THEN "none" ELSE "closed")
          /\ \A probe \in ProbeOutcomes, login \in LoginOutcomes :
                EnsureAuthenticated(client', now, probe, login).auths = 1
          /\ \A auth0 \in {"none", "open", "closed"}, login \in LoginOutcomes :
                LET c0 == [client EXCEPT !.auth = auth0]
                    a == Authenticate(c0, now, login)
                IN ~a.ok => /\ a.c.last_auth_time = c0.last_auth_time
                            /\ a.c.auth = (IF auth0 = "none" THEN "none" ELSE "closed")]_vars

\* a client with a username and password whose login flow failed twice in a
\* row, the second time inside _ensure_authenticated: no session, never
\* authenticated
C38_Witness ==
    /\ op.name = "_ensure_authenticated"
    /\ op.auths = 1 /\ ~op.ok /\ op.logins = 1
    /\ op.streak = 2
    /\ client.has_password
    /\ client.auth = "none"
    /\ client.last_auth_time = -1

----------------------------------------------------------------------------
(* Claims about the transfer engine and the lineup selector (SpecCalc) *)

\* the prices of the players on one side of a batch, from transfer i on
RECURSIVE CostOf(_, _, _)
CostOf(transfers, side, i) ==
    IF i > Len(transfers) THEN 0
    ELSE (IF side = "in" THEN transfers[i].in.now_cost ELSE transfers[i].out.now_cost)
            + CostOf(transfers, side, i + 1)

\* C39: the batch identify_transfer_targets returns is affordable as a
\* whole: the prices of the incoming players minus the prices of the
\* outgoing ones do not exceed the budget passed in.
C39_BatchAffordable ==
    calc.pc = "identified" =>
        CostOf(calc.result, "in", 1) - CostOf(calc.result, "out", 1) <= calc.budget

\* C40: select_lineup on a squad of 2 goalkeepers, 5 defenders, 5
\* midfielders and 3 forwards returns 11 distinct members of the squad, one
\* of them a goalkeeper, in one of the validator's seven formations,
\* whatever the expected points are.
C40_LegalLineup ==
    calc.pc = "selected" =>
        LET lineup == calc.result IN
        /\ Len(lineup) = LineupSize
        /\ \A i, j \in DOMAIN lineup : i # j => lineup[i].id # lineup[j].id
        /\ \A i \in DOMAIN lineup : \E k \in DOMAIN calc.squad : calc.squad[k] = lineup[i]
        /\ PositionCount(lineup, 1) = 1
        /\ <<1, PositionCount(lineup, 2), PositionCount(lineup, 3),
             PositionCount(lineup, 4)>> \in AllowedFormations

\* both goalkeepers and all the forwards expected to score most: one
\* goalkeeper and three forwards in the lineup
C40_Witness ==
    /\ calc.pc = "selected"
    /\ \A i \in DOMAIN calc.squad :
          calc.points[i] = (IF calc.squad[i].element_type \in {1, 4} THEN 1 ELSE 0)
    /\ PositionCount(calc.result, 1) = 1
    /\ PositionCount(calc.result, 4) = 3
    /\ Len(calc.result) = LineupSize

====
